---- MODULE Spec2Model ----
(***************************************************************************)
(* A model of BalderJS (src/src/balder.ts): Sprite frame timing, Grid hit   *)
(* testing and activation, Hitbox intersection and the load-time           *)
(* comparison of written output with the expected output (`o` parameter).   *)
(*                                                                         *)
(* Each component has its own specification (SpecSprite, SpecGrid, ...);    *)
(* the variables of the other components keep their idle value there.       *)
(* Times are milliseconds, coordinates are pixels.                          *)
(***************************************************************************)
EXTENDS Integers, Sequences, FiniteSets, TLC

VARIABLES
    sprite,         \* Sprite fields: index, remainingTime, frames, framesPerSecond, finished, loop
    deltaTime,      \* global `deltaTime`, ms since the previous frame
    spriteHist,     \* observations of the sprite's run (not program state)
    hitboxes,       \* the two Hitbox objects a and b: fields x, y, width, height
    hitResult,      \* the values returned by a.intersects(b) and b.intersects(a)
    grid,           \* Grid fields: rows, columns, x, y, width, height, activatable, activeCell
    hit,            \* the last call of grid.cellFromPoint: its point and the value returned
    mouse,          \* _mouseX, _mouseY, _mouseOver, _buttons
    touch,          \* _touches, _touchable
    actHist,        \* observations of the reads of grid.activated (not program state)
    outputElt,      \* _outputElt: whether it is set, and its textContent
    oValue,         \* the decoded `o` parameter, the expected output
    cmp,            \* the load listener: its position, `output`, `offset` and the marked spans
    cellProps,      \* the cells' _color, _image, _text, _custom, fontSize, textColor
    cellHist,       \* the last property assignment and what it drew (not program state)
    panel,          \* _canvas.hidden and _io.hidden
    input,          \* _inputLines and _inputLineIndex
    pending,        \* the read() calls whose promise waits for Enter
    ioHist,         \* the last I/O call and the values read() returned (not program state)
    update,         \* the global `update`: null or a function
    handler,        \* whether _updateHandler is scheduled for the next frame, and the frames so far
    frameHist,      \* what happened in the last animation frame (not program state)
    turtle,         \* Turtle fields x, y, heading, delay, points
    clock,          \* the time, ms
    moves,          \* the calls of forward, backward, right, left: their sleep timer and promise
    keys,           \* _keys: per key code true, false, null, or undefined when absent
    keyName,        \* _keyName
    keyLog,         \* the keyboard events and assignments so far (not program state)
    rnd,            \* the arguments of random(min, max, step) and the values it has returned
    builds,         \* the invocations of buildOnce: position, step results, reloads, logged errors
    server,         \* the file-change events handled so far
    audioList,      \* _audioList: the oscillators that play, with frequency, gain and stop time
    beeps,          \* the calls of beep(): the oscillator used, and how often the promise resolved
    fillHist,       \* whether a fill is open, the trail the calls should have left, the polygons filled (not program state)
    console,        \* the lines of the console panel, _repetition, _repetitionElt, _lastValue
    conLog          \* the console messages and clearConsole calls so far (not program state)

spriteVars == <<sprite, deltaTime, spriteHist>>
hitboxVars == <<hitboxes, hitResult>>
gridVars == <<grid, hit>>
pointerVars == <<mouse, touch, actHist>>
ioVars == <<outputElt, oValue, cmp>>
cellVars == <<cellProps, cellHist>>
inputVars == <<panel, input, pending, ioHist>>
frameVars == <<update, handler, frameHist>>
turtleVars == <<turtle, clock, moves>>
keyVars == <<keys, keyName, keyLog>>
randomVars == <<rnd>>
serverVars == <<builds, server>>
beepVars == <<audioList, beeps>>
trailVars == <<fillHist>>
consoleVars == <<console, conLog>>

vars == <<sprite, deltaTime, spriteHist, hitboxes, hitResult, grid, hit,
          mouse, touch, actHist, outputElt, oValue, cmp,
          cellProps, cellHist,
          panel, input, pending, ioHist,
          update, handler, frameHist,
          turtle, clock, moves,
          keys, keyName, keyLog,
          rnd,
          builds, server,
          audioList, beeps,
          fillHist,
          console, conLog>>

\* what the actions of one component leave alone
outsideSprite == <<hitboxVars, gridVars, pointerVars, ioVars, cellVars, inputVars, frameVars, turtleVars, keyVars, randomVars, serverVars, beepVars, trailVars, consoleVars>>
outsideHitbox == <<spriteVars, gridVars, pointerVars, ioVars, cellVars, inputVars, frameVars, turtleVars, keyVars, randomVars, serverVars, beepVars, trailVars, consoleVars>>
outsideGrid == <<spriteVars, hitboxVars, ioVars, cellVars, inputVars, frameVars, turtleVars, keyVars, randomVars, serverVars, beepVars, trailVars, consoleVars>>
outsideIO == <<spriteVars, hitboxVars, gridVars, pointerVars, cellVars, inputVars, frameVars, turtleVars, keyVars, randomVars, serverVars, beepVars, trailVars, consoleVars>>
outsideCells == <<spriteVars, hitboxVars, gridVars, pointerVars, ioVars, inputVars, frameVars, turtleVars, keyVars, randomVars, serverVars, beepVars, trailVars, consoleVars>>
outsideInput == <<spriteVars, hitboxVars, gridVars, pointerVars, cellVars, frameVars, turtleVars, keyVars, randomVars, serverVars, beepVars, trailVars, consoleVars>>
outsideFrames == <<hitboxVars, gridVars, pointerVars, ioVars, cellVars, inputVars, turtleVars, keyVars, randomVars, serverVars, beepVars, trailVars>>
outsideTurtle == <<spriteVars, hitboxVars, gridVars, pointerVars, ioVars, cellVars, inputVars, frameVars, keyVars, randomVars, serverVars, beepVars, trailVars, consoleVars>>
outsideKeyboard == <<spriteVars, hitboxVars, gridVars, pointerVars, ioVars, cellVars, inputVars, frameVars, turtleVars, randomVars, serverVars, beepVars, trailVars, consoleVars>>
outsideRandom == <<spriteVars, hitboxVars, gridVars, pointerVars, ioVars, cellVars, inputVars, frameVars, turtleVars, keyVars, serverVars, beepVars, trailVars, consoleVars>>
outsideServer == <<spriteVars, hitboxVars, gridVars, pointerVars, ioVars, cellVars, inputVars, frameVars, turtleVars, keyVars, randomVars, beepVars, trailVars, consoleVars>>
outsideBeep == <<spriteVars, hitboxVars, gridVars, pointerVars, ioVars, cellVars, inputVars, frameVars, turtleVars, keyVars, randomVars, serverVars, trailVars, consoleVars>>
outsideTrail == <<spriteVars, hitboxVars, gridVars, pointerVars, ioVars, cellVars, inputVars, frameVars, keyVars, randomVars, serverVars, beepVars, consoleVars>>
outsideConsole == <<spriteVars, hitboxVars, gridVars, pointerVars, ioVars, cellVars, inputVars, frameVars, turtleVars, keyVars, randomVars, serverVars, beepVars, trailVars>>

(***************************************************************************)
(* Bounds                                                                  *)
(***************************************************************************)
MaxFrames == 3      \* longest frame sequence
MaxDelta == 5       \* longest time between two frames, ms
MaxDebt == 6        \* how far below zero remainingTime may fall
MaxPos == 2         \* largest hitbox coordinate
MaxSize == 2        \* largest hitbox width and height
MaxRows == 2        \* most rows of a grid
MaxColumns == 3     \* most columns of a grid
MaxOrigin == 1      \* largest grid x and y
MaxWidth == 6       \* largest grid width, pixels
MaxHeight == 5      \* largest grid height, pixels
MaxPtr == 1         \* largest pointer coordinate (the smallest is -1)
MaxText == 3        \* longest written text, characters
MaxExpected == 2    \* longest expected output, characters

Min(a, b) == IF a < b THEN a ELSE b
Max(a, b) == IF a > b THEN a ELSE b

(***************************************************************************)
(* Sprite                                                                  *)
(***************************************************************************)
MsPerSecond == 1000

\* framesPerSecond values whose frame period 1000 / fps is a whole number of ms
FpsValues == {500, 250}

\* 1000 / this._framesPerSecond
FramePeriod(s) == MsPerSecond \div s.framesPerSecond

\* array(rows * columns, i => i): the frame sequence 0, 1, ..., n-1
FrameSeq(n) == [i \in 1..n |-> i - 1]

\* new Sprite(...), then framesPerSecond and loop assigned by the program
NewSprite(n, fps, lp) ==
    [ index |-> 0,
      remainingTime |-> MsPerSecond \div fps,
      frames |-> FrameSeq(n),
      framesPerSecond |-> fps,
      finished |-> FALSE,
      loop |-> lp ]

\* A plausible slip: `_finished = true` as soon as the last frame is shown,
\* outside the test of remainingTime.
SpriteUpdateEarlyFinish(s, dt) ==
    LET rt == s.remainingTime - dt
        atEnd == s.index >= Len(s.frames) - 1
        fin == IF atEnd /\ ~s.loop THEN TRUE ELSE s.finished
    IN  IF rt < 0
        THEN [s EXCEPT !.remainingTime = rt + FramePeriod(s),
                       !.index = IF atEnd THEN (IF s.loop THEN 0 ELSE s.index)
                                          ELSE s.index + 1,
                       !.finished = fin]
        ELSE [s EXCEPT !.remainingTime = rt, !.finished = fin]

\* A plausible slip: catching up after a long frame by advancing one frame
\* per elapsed period in a single update.
SpriteUpdateCatchUp(s, dt) ==
    LET rt == s.remainingTime - dt
        n == Len(s.frames)
        k == IF rt < 0 THEN ((-rt) \div FramePeriod(s)) + 1 ELSE 0
        target == s.index + k
    IN  [s EXCEPT !.remainingTime = rt + k * FramePeriod(s),
                  !.index = IF target <= n - 1 THEN target
                            ELSE IF s.loop THEN target % n ELSE n - 1,
                  !.finished = IF target > n - 1 /\ ~s.loop THEN TRUE ELSE s.finished]

\* Sprite.update(): the fields after one call with the global deltaTime = dt
SpriteUpdate(s, dt) ==
    LET rt == s.remainingTime - dt
    IN  IF rt < 0
        THEN [s EXCEPT !.remainingTime = rt + FramePeriod(s),
                       !.index = IF s.index >= Len(s.frames) - 1
                                 THEN (IF s.loop THEN 0 ELSE s.index)
                                 ELSE s.index + 1,
                       !.finished = IF s.index >= Len(s.frames) - 1 /\ ~s.loop
                                    THEN TRUE ELSE s.finished]
        ELSE [s EXCEPT !.remainingTime = rt]

NoSprite == NewSprite(1, MsPerSecond, TRUE)

NoSpriteHist ==
    [ visited |-> {0}, prevIndex |-> 0, changes |-> 0, everDue |-> FALSE,
      wrapped |-> FALSE, longDelta |-> FALSE, afterFinish |-> FALSE ]

SpriteIdle ==
    /\ sprite = NoSprite
    /\ deltaTime = 0
    /\ spriteHist = NoSpriteHist

(***************************************************************************)
(* Hitbox                                                                  *)
(***************************************************************************)
\* new Hitbox(x, y, width, height): any numbers, sizes may be zero or negative
Hitboxes ==
    [ x : 0..MaxPos, y : 0..MaxPos, width : (-1)..MaxSize, height : (-1)..MaxSize ]

\* A plausible slip: one of the four comparisons made inclusive.
IntersectsLeftInclusive(this, other) ==
    /\ this.x + this.width > other.x
    /\ this.x <= other.x + other.width
    /\ this.y + this.height > other.y
    /\ this.y < other.y + other.height

\* A plausible slip: all comparisons inclusive, so touching edges intersect.
IntersectsInclusive(this, other) ==
    /\ this.x + this.width >= other.x
    /\ this.x <= other.x + other.width
    /\ this.y + this.height >= other.y
    /\ this.y <= other.y + other.height

\* Hitbox.intersects(other)
Intersects(this, other) ==
    /\ this.x + this.width > other.x
    /\ this.x < other.x + other.width
    /\ this.y + this.height > other.y
    /\ this.y < other.y + other.height

NoHitboxes == [ a |-> [x |-> 0, y |-> 0, width |-> 0, height |-> 0],
                b |-> [x |-> 0, y |-> 0, width |-> 0, height |-> 0] ]

NoHitResult == [ called |-> FALSE, ab |-> FALSE, ba |-> FALSE ]

HitboxIdle ==
    /\ hitboxes = NoHitboxes
    /\ hitResult = NoHitResult

(***************************************************************************)
(* Grid and Cell                                                           *)
(*                                                                         *)
(* cellWidth = (width - columns - 1) / columns is a fraction in general.   *)
(* The model keeps it exact: a cell's x and width are held multiplied by   *)
(* `columns`, its y and height multiplied by `rows`.  Pointer coordinates  *)
(* are whole pixels.                                                       *)
(***************************************************************************)
\* the value `undefined`, as a record so that it compares with cells
Undefined == [ undefined |-> TRUE ]

\* this.cellWidth * columns, this.cellHeight * rows
CellWidthN(g) == g.width - g.columns - 1
CellHeightN(g) == g.height - g.rows - 1

\* (this.cellWidth + 1) * columns, (this.cellHeight + 1) * rows
PitchXN(g) == CellWidthN(g) + g.columns
PitchYN(g) == CellHeightN(g) + g.rows

\* new Cell(i, j, x + j * (cellWidth + 1) + 1, y + i * (cellHeight + 1) + 1,
\*          cellWidth, cellHeight, color)
NewCell(g, i, j) ==
    [ row |-> i,
      column |-> j,
      x |-> g.x * g.columns + j * PitchXN(g) + g.columns,
      y |-> g.y * g.rows + i * PitchYN(g) + g.rows,
      width |-> CellWidthN(g),
      height |-> CellHeightN(g) ]

\* this.cells, indexed from 0 as in the code
Cells(g) == [ i \in 0..(g.rows - 1) |-> [ j \in 0..(g.columns - 1) |-> NewCell(g, i, j) ] ]

\* Math.floor(a / b) for integers a and b # 0
Floor(a, b) == IF b > 0 THEN a \div b ELSE (-a) \div (-b)

\* Math.floor(num / den) as an array index.  For den = 0 JavaScript gives
\* Infinity, -Infinity or NaN, which index nothing: -1 stands for them.
FloorIndex(num, den) == IF den = 0 THEN -1 ELSE Floor(num, den)

\* this.cells[row]?.[column]
CellOrUndefined(g, row, column) ==
    IF row \in 0..(g.rows - 1) /\ column \in 0..(g.columns - 1)
    THEN Cells(g)[row][column]
    ELSE Undefined

\* A plausible slip: dividing by cellWidth instead of the pitch cellWidth + 1.
CellFromPointNoLine(g, px, py) ==
    CellOrUndefined(g,
        FloorIndex((py - g.y) * g.rows, CellHeightN(g)),
        FloorIndex((px - g.x) * g.columns, CellWidthN(g)))

\* A plausible slip: clamping row and column into the grid.
CellFromPointClamped(g, px, py) ==
    CellOrUndefined(g,
        Max(0, Min(g.rows - 1, FloorIndex((py - g.y) * g.rows, PitchYN(g)))),
        Max(0, Min(g.columns - 1, FloorIndex((px - g.x) * g.columns, PitchXN(g)))))

\* Grid.cellFromPoint(x, y)
CellFromPoint(g, px, py) ==
    CellOrUndefined(g,
        FloorIndex((py - g.y) * g.rows, PitchYN(g)),
        FloorIndex((px - g.x) * g.columns, PitchXN(g)))

\* new Grid(rows, columns, x, y, width, height)
NewGrid(rows, columns, x, y, width, height) ==
    LET g == [ rows |-> rows, columns |-> columns, x |-> x, y |-> y,
               width |-> width, height |-> height ]
    IN  [ rows |-> rows, columns |-> columns, x |-> x, y |-> y,
          width |-> width, height |-> height,
          activatable |-> TRUE,
          activeCell |-> NewCell(g, 0, 0) ]

\* grids of at least one row and column and at least one pixel each way
Grids ==
    { NewGrid(r, c, x, y, w, h) :
        r \in 1..MaxRows, c \in 1..MaxColumns, x \in 0..MaxOrigin, y \in 0..MaxOrigin,
        w \in 1..MaxWidth, h \in 1..MaxHeight }

\* the points asked about: the grid's rectangle and a margin around it
PointXs == (-1)..(MaxOrigin + MaxWidth + 1)
PointYs == (-1)..(MaxOrigin + MaxHeight + 1)

NoGrid == NewGrid(1, 1, 0, 0, 1, 1)

NoHit == [ called |-> FALSE, x |-> 0, y |-> 0, cell |-> Undefined ]

GridIdle ==
    /\ grid = NoGrid
    /\ hit = NoHit

(***************************************************************************)
(* Mouse and touchscreen                                                   *)
(***************************************************************************)
\* event.button of the left and the right button (mouse.left, mouse.right)
Buttons == {0, 2}

\* pointer coordinates relative to the canvas; -1 is also the initial value
PtrCoords == (-1)..MaxPtr

\* let _mouseX = -1; let _mouseY = -1; let _mouseOver; let _buttons = []
\* An entry of _buttons is "true", "false", or "null" (null or not set).
NewMouse ==
    [ x |-> -1, y |-> -1, over |-> "undefined", buttons |-> [ b \in Buttons |-> "null" ] ]

\* let _touches = []; let _touchable = true
NewTouch == [ touches |-> <<>>, touchable |-> TRUE ]

\* event.touches: only _touches[0] and _touches.length are ever read
TouchLists == { <<>> } \cup { <<[ x |-> px, y |-> py ]>> : px \in PtrCoords, py \in PtrCoords }

\* touchscreen.touched, touchscreen.x, touchscreen.y
Touched(t) == t.touchable /\ Len(t.touches) > 0
TouchX(t) == IF Len(t.touches) > 0 THEN t.touches[1].x ELSE -1
TouchY(t) == IF Len(t.touches) > 0 THEN t.touches[1].y ELSE -1

\* mouse.buttons.some(value => value)
AnyButton(m) == \E b \in Buttons : m.buttons[b] = "true"

\* touchscreen.touched || mouse.buttons.some(value => value)
Pressed(m, t) == Touched(t) \/ AnyButton(m)

\* the point a read of `activated` looks at
PointerX(m, t) == IF Touched(t) THEN TouchX(t) ELSE m.x
PointerY(m, t) == IF Touched(t) THEN TouchY(t) ELSE m.y

\* A plausible slip: `activatable` is never cleared.
ActivatedNoDebounce(g, m, t) ==
    IF Pressed(m, t)
    THEN IF g.activatable
         THEN LET cell == CellFromPoint(g, PointerX(m, t), PointerY(m, t))
              IN  IF cell # Undefined
                  THEN [ grid |-> [g EXCEPT !.activeCell = cell], result |-> TRUE ]
                  ELSE [ grid |-> g, result |-> FALSE ]
         ELSE [ grid |-> g, result |-> FALSE ]
    ELSE [ grid |-> [g EXCEPT !.activatable = TRUE], result |-> FALSE ]

\* A plausible slip: the mouse position is used also when the screen is touched.
ActivatedMousePoint(g, m, t) ==
    IF Pressed(m, t)
    THEN IF g.activatable
         THEN LET cell == CellFromPoint(g, m.x, m.y)
              IN  IF cell # Undefined
                  THEN [ grid |-> [g EXCEPT !.activatable = FALSE, !.activeCell = cell],
                         result |-> TRUE ]
                  ELSE [ grid |-> [g EXCEPT !.activatable = FALSE], result |-> FALSE ]
         ELSE [ grid |-> g, result |-> FALSE ]
    ELSE [ grid |-> [g EXCEPT !.activatable = TRUE], result |-> FALSE ]

\* get Grid.activated: the grid afterwards and the value returned
Activated(g, m, t) ==
    IF Pressed(m, t)
    THEN IF g.activatable
         THEN LET cell == CellFromPoint(g, PointerX(m, t), PointerY(m, t))
              IN  IF cell # Undefined
                  THEN [ grid |-> [g EXCEPT !.activatable = FALSE, !.activeCell = cell],
                         result |-> TRUE ]
                  ELSE [ grid |-> [g EXCEPT !.activatable = FALSE], result |-> FALSE ]
         ELSE [ grid |-> g, result |-> FALSE ]
    ELSE [ grid |-> [g EXCEPT !.activatable = TRUE], result |-> FALSE ]

\* what is remembered of the reads: the last step, the value the last read
\* returned, and, since the last read that returned true, whether a read saw
\* nothing pressed (idle) and whether the pointer stayed pressed (held)
NoActHist ==
    [ lastOp |-> "none", result |-> FALSE, prevActive |-> Undefined,
      everTrue |-> FALSE, idle |-> FALSE, held |-> FALSE,
      everTrueBefore |-> FALSE, idleBefore |-> FALSE, heldBefore |-> FALSE ]

\* actHist after a pointer event that leaves the mouse as m and the touchscreen as t
AfterEvent(h, m, t) ==
    [ h EXCEPT !.lastOp = "event", !.result = FALSE, !.prevActive = Undefined,
               !.everTrueBefore = FALSE, !.idleBefore = FALSE, !.heldBefore = FALSE,
               !.held = h.held /\ Pressed(m, t) ]

PointerIdle ==
    /\ mouse = NewMouse
    /\ touch = NewTouch
    /\ actHist = NoActHist

(***************************************************************************)
(* Text output and its comparison with the `o` parameter                   *)
(*                                                                         *)
(* A string is a sequence of characters.                                   *)
(***************************************************************************)
Chars == {"a", "b", " ", "\n"}
Whitespace == {" ", "\n"}

\* the strings of at most n characters
Strings(n) == UNION { [1..k -> Chars] : k \in 0..n }

\* s[i] in JavaScript: the character at index i (from 0), undefined past the end
CharAt(s, i) == IF i < Len(s) THEN s[i + 1] ELSE "undefined"

\* s.slice(from)
SliceFrom(s, from) == SubSeq(s, from + 1, Len(s))

\* s.slice(0, to)
SliceTo(s, to) == SubSeq(s, 1, to)

\* " ".repeat(n)
Spaces(n) == [i \in 1..n |-> " "]

\* s.trimEnd()
RECURSIVE TrimEnd(_)
TrimEnd(s) ==
    IF Len(s) > 0 /\ s[Len(s)] \in Whitespace
    THEN TrimEnd(SubSeq(s, 1, Len(s) - 1))
    ELSE s

\* s.split("\n")
RECURSIVE SplitLines(_)
SplitLines(s) ==
    IF \E i \in 1..Len(s) : s[i] = "\n"
    THEN LET i == CHOOSE k \in 1..Len(s) :
                     s[k] = "\n" /\ \A m \in 1..(k - 1) : s[m] # "\n"
         IN  <<SubSeq(s, 1, i - 1)>> \o SplitLines(SubSeq(s, i + 1, Len(s)))
    ELSE <<s>>

\* lines.join("\n")
RECURSIVE JoinLines(_)
JoinLines(lines) ==
    IF Len(lines) = 1
    THEN lines[1]
    ELSE lines[1] \o <<"\n">> \o JoinLines(Tail(lines))

\* A plausible slip: only the end of the whole text is trimmed.
TrimOutputEndOnly(text) == TrimEnd(text)

\* textContent.split("\n").map(line => line.trimEnd()).join("\n").trimEnd()
TrimOutput(text) ==
    LET lines == SplitLines(text)
    IN  TrimEnd(JoinLines([ i \in 1..Len(lines) |-> TrimEnd(lines[i]) ]))

\* _outputElt?.textContent ... ?? ""
OutputOf(elt) == IF elt.set THEN TrimOutput(elt.textContent) ELSE <<>>

\* the condition of `while (output[offset] == oValue[offset])`
ScanContinues(output, expected, offset) == CharAt(output, offset) = CharAt(expected, offset)

\* output.slice(offset) + " ".repeat(Math.max(0, oValue.length - output.length))
IncorrectText(output, expected, offset) ==
    SliceFrom(output, offset) \o Spaces(Max(0, Len(expected) - Len(output)))

\* let _outputElt: HTMLDivElement | null
NoOutputElt == [ set |-> FALSE, textContent |-> <<>> ]

\* the load listener has not run
NoCmp ==
    [ pc |-> "idle", output |-> <<>>, offset |-> 0,
      correct |-> <<>>, hasIncorrect |-> FALSE, incorrect |-> <<>> ]

IOIdle ==
    /\ outputElt = NoOutputElt
    /\ oValue = <<>>
    /\ cmp = NoCmp

(***************************************************************************)
(* Cell properties and drawing                                             *)
(***************************************************************************)
\* the cells of grid g, named by <<row, column>>
CellIds(g) == (0..(g.rows - 1)) \X (0..(g.columns - 1))

\* a cell after new Cell(...): nothing set, fontSize = Math.min(height, width)
\* ("min"), textColor = the grid's color argument ("black")
NewProps ==
    [ color |-> "null", image |-> "null", text |-> "null", custom |-> "null",
      fontSize |-> "min", textColor |-> "black" ]

NewCellProps(g) == [ id \in CellIds(g) |-> NewProps ]

\* what a program assigns to color, image and custom: null or a value
PropValues == {"null", "v"}

\* what a program assigns to text: null, a string, or an array
\* [value, fontSize?, color?]
TextValues ==
    { [ kind |-> "null", text |-> "null", fontSize |-> "undefined", color |-> "undefined" ],
      [ kind |-> "string", text |-> "t", fontSize |-> "undefined", color |-> "undefined" ],
      [ kind |-> "array", text |-> "t", fontSize |-> "undefined", color |-> "undefined" ],
      [ kind |-> "array", text |-> "t", fontSize |-> "f", color |-> "c" ] }

\* set text(value): the cell's fields afterwards
WithText(props, value) ==
    IF value.kind = "null" THEN [props EXCEPT !.text = "null"]
    ELSE IF value.kind = "string" THEN [props EXCEPT !.text = value.text]
    ELSE [props EXCEPT !.text = value.text,
                       !.fontSize = IF value.fontSize = "undefined"
                                    THEN props.fontSize ELSE value.fontSize,
                       !.textColor = IF value.color = "undefined"
                                     THEN props.textColor ELSE value.color]

\* Cell.draw(): the canvas operations, in order.  clear() carries the
\* rectangle it clears (scaled as the cell's fields are).
CellDraw(g, id, props) ==
    LET c == NewCell(g, id[1], id[2])
        part(cond, op) == IF cond THEN <<[ op |-> op, cell |-> id ]>> ELSE <<>>
    IN  <<[ op |-> "clear", cell |-> id,
            x |-> c.x, y |-> c.y, width |-> c.width, height |-> c.height ]>>
        \o part(props.color # "null", "rectangle")
        \o part(props.image # "null", "drawImage")
        \o part(props.text # "null", "text")
        \o part(props.custom # "null", "custom")

RECURSIVE DrawAll(_, _, _)
DrawAll(g, all, ids) ==
    IF ids = {} THEN <<>>
    ELSE LET id == CHOOSE i \in ids : TRUE
         IN  CellDraw(g, id, all[id]) \o DrawAll(g, all, ids \ {id})

\* A plausible slip: the setter redraws the whole grid.
SetterRedrawGrid(g, all, id) == DrawAll(g, all, CellIds(g))

\* `this.draw()` at the end of a setter of cell id
SetterRedraw(g, all, id) == CellDraw(g, id, all[id])

NoCellHist ==
    [ op |-> "none", cell |-> <<0, 0>>, value |-> "null",
      prev |-> NewCellProps(NoGrid), canvas |-> <<>> ]

CellsIdle ==
    /\ cellProps = NewCellProps(NoGrid)
    /\ cellHist = NoCellHist

(***************************************************************************)
(* Text input and the I/O panel                                            *)
(***************************************************************************)
MaxParam == 2       \* longest `i` parameter, characters
MaxReads == 3       \* read() calls in one run

\* the `i` parameter after decoding: absent, or a string
NoParam == [ present |-> FALSE, value |-> <<>> ]
Params == {NoParam} \cup { [ present |-> TRUE, value |-> s ] : s \in Strings(MaxParam) }

\* if (_iParam != null) _inputLines = decodeURIComponent(_iParam).split("\n")
InputLinesOf(param) == IF param.present THEN SplitLines(param.value) ELSE <<>>

NewInput(param) == [ lines |-> InputLinesOf(param), index |-> 0 ]

\* what the user types before Enter
UserTexts == { <<>>, <<"b">> }

\* _inputLines[_inputLineIndex] != null
HasLine(in) == in.index < Len(in.lines)

\* _inputLines[_inputLineIndex] = valueElt.textContent (the index is never
\* beyond the end of the list)
StoreLine(in, text) ==
    IF in.index < Len(in.lines)
    THEN [in EXCEPT !.lines[in.index + 1] = text]
    ELSE [in EXCEPT !.lines = Append(in.lines, text)]

\* A plausible slip: the newest line is returned.
ResolveNewest(in) ==
    [ value |-> in.lines[Len(in.lines)], input |-> [in EXCEPT !.index = @ + 1] ]

\* resolve(_inputLines[_inputLineIndex++])
Resolve(in) ==
    [ value |-> in.lines[in.index + 1], input |-> [in EXCEPT !.index = @ + 1] ]

\* _io.hidden = true at start-up; the canvas is shown
CanvasShown == [ canvasHidden |-> FALSE, ioHidden |-> TRUE ]

\* _canvas.hidden = true; _io.hidden = false
PanelShown == [ canvasHidden |-> TRUE, ioHidden |-> FALSE ]

\* what write() is given: a value and an end
WriteValues == { <<"a">> }
WriteEnds == { <<>>, <<"\n">> }

NoIOHist == [ last |-> "none", reads |-> 0, supplied |-> 0, returned |-> <<>> ]

InputIdle ==
    /\ panel = CanvasShown
    /\ input = NewInput(NoParam)
    /\ pending = {}
    /\ ioHist = NoIOHist

(***************************************************************************)
(* The update loop                                                         *)
(***************************************************************************)
\* The functions a program assigns to `update`, by what a call does: nothing
\* to `update`, update = null, update = another function, or throw.
Functions == {"noop", "setNull", "swap", "throw"}
UpdateValues == {"null"} \cup Functions

\* update(): the value of `update` afterwards and whether the call threw
CallUpdate(f) ==
    CASE f = "setNull" -> [ update |-> "null", threw |-> FALSE ]
      [] f = "swap" -> [ update |-> "noop", threw |-> FALSE ]
      [] f = "throw" -> [ update |-> f, threw |-> TRUE ]
      [] OTHER -> [ update |-> f, threw |-> FALSE ]

\* A plausible slip: the next frame is requested in a finally clause.
UpdateHandlerFinally(u) ==
    IF u = "null"
    THEN [ update |-> u, calls |-> 0, threw |-> FALSE, scheduled |-> TRUE ]
    ELSE LET r == CallUpdate(u)
         IN  [ update |-> r.update, calls |-> 1, threw |-> r.threw, scheduled |-> TRUE ]

\* str(error) of the error a throwing update function throws
UpdateError == "a"

\* _updateHandler after the two assignments: update?.() and, unless the call
\* threw, requestAnimationFrame(_updateHandler)
UpdateHandler(u) ==
    IF u = "null"
    THEN [ update |-> u, calls |-> 0, threw |-> FALSE, scheduled |-> TRUE ]
    ELSE LET r == CallUpdate(u)
         IN  [ update |-> r.update, calls |-> 1, threw |-> r.threw,
               scheduled |-> ~r.threw ]

\* after requestAnimationFrame(_updateHandler) at start-up
NewHandler == [ scheduled |-> TRUE, frames |-> 0 ]

\* thrown: the frames in which update threw; callsSince: the calls of update
\* in frames after such a frame
NoFrameHist ==
    [ frame |-> 0, atFrame |-> "null", calls |-> 0, threw |-> FALSE,
      thrown |-> 0, callsSince |-> 0 ]

FramesIdle ==
    /\ update = "null"
    /\ handler = NewHandler
    /\ frameHist = NoFrameHist

(***************************************************************************)
(* Turtle                                                                  *)
(***************************************************************************)
MaxDelay == 2       \* largest Turtle.delay, ms
MaxClock == 4       \* latest time, ms
MaxMoves == 3       \* movements and rotations in one run

\* Math.cos(radians(h)) and Math.sin(radians(h)) for h a multiple of 90
Cos90(h) ==
    LET a == ((h % 360) + 360) % 360
    IN  IF a = 0 THEN 1 ELSE IF a = 180 THEN -1 ELSE 0

Sin90(h) ==
    LET a == ((h % 360) + 360) % 360
    IN  IF a = 90 THEN 1 ELSE IF a = 270 THEN -1 ELSE 0

\* new Turtle(0, 0, 0) with its delay set
NewTurtle(delay) ==
    [ x |-> 0, y |-> 0, heading |-> 0, delay |-> delay, points |-> <<>> ]

\* A plausible slip: move() records every position.
TurtleMoveAlways(t) == [t EXCEPT !.points = Append(@, <<t.x, t.y>>)]

\* Turtle.move(): the fill outline grows while one is being collected
TurtleMove(t) ==
    IF Len(t.points) > 0
    THEN [t EXCEPT !.points = Append(@, <<t.x, t.y>>)]
    ELSE t

\* forward(length): the change of state before the sleep
TurtleForward(t, length) ==
    TurtleMove([t EXCEPT !.x = @ + Cos90(t.heading) * length,
                         !.y = @ + Sin90(t.heading) * length])

\* right(degAngle): the change of state before the sleep
TurtleRight(t, degAngle) == [t EXCEPT !.heading = @ + degAngle]

Methods == {"forward", "backward", "right", "left"}

\* the turtle after the synchronous part of the call
TurtleAfter(t, method) ==
    CASE method = "forward" -> TurtleForward(t, 1)
      [] method = "backward" -> TurtleForward(t, -1)
      [] method = "right" -> TurtleRight(t, 90)
      [] method = "left" -> TurtleRight(t, -90)

\* Whether the method's promise waits for the sleep: forward and right await
\* sleep(this.delay), left awaits right(); backward calls forward() and
\* returns without awaiting it.
AwaitsSleep(method) == method # "backward"

\* sleep(msDuration) called at time `now`: the timer and the promise of the call
NewMove(method, now, delay) ==
    [ method |-> method, changedAt |-> now, due |-> now + delay,
      fired |-> FALSE, resolved |-> ~AwaitsSleep(method) ]

TurtleIdle ==
    /\ turtle = NewTurtle(0)
    /\ clock = 0
    /\ moves = <<>>

(***************************************************************************)
(* Keyboard                                                                *)
(***************************************************************************)
MaxEvents == 4      \* keyboard events and assignments in one run

KeyCodes == {"Space", "ShiftLeft", "ShiftRight", "Enter", "NumpadEnter"}

\* the key codes that have a property with a setter among KeyCodes
\* (keyboard.space, keyboard.enter)
SettableCodes == {"Space", "Enter"}

\* let _keys = {}
NoKeys == [ code \in KeyCodes |-> "undefined" ]

\* the key that the keyup listener releases together with `code`
PairOf(code) ==
    CASE code = "ShiftLeft" -> "ShiftRight"
      [] code = "ShiftRight" -> "ShiftLeft"
      [] code = "NumpadEnter" -> "Enter"
      [] code = "Enter" -> "NumpadEnter"
      [] OTHER -> code

\* A plausible slip: keydown does not test for a suppressed key.
KeyDownHandlerNoSuppress(ks, code) == [ks EXCEPT ![code] = "true"]

\* get space(), get enter(), ...: !!_keys[code]
KeyProperty(ks, code) == ks[code] = "true"

\* the keydown listener
KeyDownHandler(ks, code) ==
    IF ks[code] # "false" THEN [ks EXCEPT ![code] = "true"] ELSE ks

\* the keyup listener
KeyUpHandler(ks, code) == [ks EXCEPT ![code] = "null", ![PairOf(code)] = "null"]

\* A plausible slip: every entry that is set counts, a suppressed key too.
KeyboardPressedAnyEntry(ks) == \E code \in KeyCodes : ks[code] \in {"true", "false"}

\* get pressed()
KeyboardPressed(ks) == \E code \in KeyCodes : ks[code] = "true"

KeyboardIdle ==
    /\ keys = NoKeys
    /\ keyName = "undefined"
    /\ keyLog = <<>>

(***************************************************************************)
(* random                                                                  *)
(***************************************************************************)
MaxRange == 3       \* min and max lie in -MaxRange..MaxRange
MaxStep == 3        \* largest step
RandSteps == 12     \* Math.random() returns u / RandSteps, u in 0..RandSteps-1

\* A plausible slip: the `+ 1` is missing.
RandomNoPlusOne(min, max, step, u) ==
    min + ((u * ((max - min) \div step)) \div RandSteps) * step

\* min + Math.floor(Math.random() * Math.floor((max - min) / step + 1)) * step
\* for integers min <= max and step >= 1, with Math.random() = u / RandSteps
Random(min, max, step, u) ==
    min + ((u * ((max - min) \div step + 1)) \div RandSteps) * step

RandomIdle == rnd = [ min |-> 0, max |-> 0, step |-> 1, returned |-> {} ]

(***************************************************************************)
(* Development server                                                      *)
(***************************************************************************)
MaxChanges == 2     \* file-change events in one run

\* buildOnce() has been called and awaits the first esbuild.build.  src1 and
\* src2 are the states of the sources that the two bundler steps have read,
\* -1 before the step has read them.
NewBuild ==
    [ pc |-> "step1", ok1 |-> "pending", ok2 |-> "pending",
      reloads |-> 0, errors |-> 0, rejected |-> FALSE, src1 |-> -1, src2 |-> -1 ]

\* The server at start-up.  The state of the sources is the number of
\* changes so far; bundle and balder are the source states the output files
\* were produced from, reloaded those of the files at the last reload (-1:
\* not written, no reload).
NewServer ==
    [ changes |-> 0, bundle |-> -1, balder |-> -1,
      reloaded |-> [ bundle |-> -1, balder |-> -1 ] ]

\* the bundler step a build is awaiting has read its entry file
HasRead(b) == IF b.pc = "step1" THEN b.src1 # -1 ELSE b.src2 # -1

\* the bundler step a build is awaiting reads the sources in state `version`
StepRead(b, version) ==
    IF b.pc = "step1" THEN [b EXCEPT !.src1 = version] ELSE [b EXCEPT !.src2 = version]

\* the files and the reload after a step of build b has settled: a step
\* that succeeds writes its outfile, and the second is followed by
\* browserSync.reload()
StepOutput(sv, b, ok) ==
    IF ~ok THEN sv
    ELSE IF b.pc = "step1" THEN [sv EXCEPT !.bundle = b.src1]
    ELSE [sv EXCEPT !.balder = b.src2,
                    !.reloaded = [ bundle |-> sv.bundle, balder |-> b.src2 ]]

\* a build is awaiting the bundler
InProgress(b) == b.pc \in {"step1", "step2"}

\* the catch clause: console.error, and the promise is fulfilled
BuildCatch(b) == [b EXCEPT !.pc = "failed", !.errors = @ + 1]

\* A plausible slip: the reload is in a finally clause.
StepDoneReloadAlways(b, ok) ==
    IF b.pc = "step1"
    THEN IF ok
         THEN [b EXCEPT !.pc = "step2", !.ok1 = "ok"]
         ELSE [BuildCatch(b) EXCEPT !.ok1 = "failed", !.reloads = @ + 1]
    ELSE IF ok
         THEN [b EXCEPT !.pc = "done", !.ok2 = "ok", !.reloads = @ + 1]
         ELSE [BuildCatch(b) EXCEPT !.ok2 = "failed", !.reloads = @ + 1]

\* buildOnce resumes after an awaited esbuild.build has succeeded or failed
StepDone(b, ok) ==
    IF b.pc = "step1"
    THEN IF ok
         THEN [b EXCEPT !.pc = "step2", !.ok1 = "ok"]
         ELSE [BuildCatch(b) EXCEPT !.ok1 = "failed"]
    ELSE IF ok
         THEN [b EXCEPT !.pc = "done", !.ok2 = "ok", !.reloads = @ + 1]
         ELSE [BuildCatch(b) EXCEPT !.ok2 = "failed"]

\* A plausible slip: the watcher stops rebuilding once a build has failed.
ChangeHandlerUntilFailure(bs) ==
    IF \E i \in 1..Len(bs) : bs[i].pc = "failed" THEN bs ELSE Append(bs, NewBuild)

\* the watcher's "all" handler: buildOnce() is called and not awaited
ChangeHandler(bs) == Append(bs, NewBuild)

ServerIdle ==
    /\ builds = <<>>
    /\ server = NewServer

(***************************************************************************)
(* beep                                                                    *)
(***************************************************************************)
MaxBeeps == 3       \* beep() calls in one run
MaxDuration == 2    \* longest msDuration

Frequencies == {440, 800}
Volumes == {0, 1}

\* _audioList.find(item => item[0].frequency.value == frequency): the
\* position of the first such item, 0 when there is none
FindAudio(list, frequency) ==
    LET ks == { k \in 1..Len(list) : list[k].frequency = frequency }
    IN  IF ks = {} THEN 0 ELSE CHOOSE k \in ks : \A n \in ks : k <= n

\* _audioList.splice(index, 1)
Splice(list, k) == SubSeq(list, 1, k - 1) \o SubSeq(list, k + 1, Len(list))

\* beep(frequency, msDuration, volume) as call number n: the list afterwards.  A new
\* oscillator is named by the call that created it.
BeepList(list, n, frequency, msDuration, volume) ==
    LET k == FindAudio(list, frequency)
    IN  IF k = 0
        THEN Append(list, [ id |-> n, frequency |-> frequency, gain |-> volume,
                            stop |-> msDuration ])
        ELSE [list EXCEPT ![k].gain = volume, ![k].stop = msDuration]

\* the call's record: the oscillator that plays its tone, and whether the
\* call set oscillator.onended to resolve its promise
BeepCall(list, n, frequency) ==
    LET k == FindAudio(list, frequency)
    IN  [ frequency |-> frequency,
          osc |-> IF k = 0 THEN n ELSE list[k].id,
          onended |-> k = 0,
          resolved |-> 0,
          ended |-> FALSE ]

BeepIdle ==
    /\ audioList = <<>>
    /\ beeps = <<>>

(***************************************************************************)
(* Turtle fill outline                                                     *)
(***************************************************************************)
MaxTrailOps == 5    \* turtle calls in one run of the outline specification

\* the values a program assigns to turtle.state: [x, y, heading]
StateValues == { <<0, 0, 0>>, <<1, 1, 90>> }

\* set state(value)
TurtleSetState(t, value) ==
    TurtleMove([t EXCEPT !.x = value[1], !.y = value[2], !.heading = value[3]])

\* beginFill()
TurtleBeginFill(t) == [t EXCEPT !.points = << <<t.x, t.y>> >>]

\* endFill(): polygon(this.points, ...) throws on an empty array (points[0]
\* is spread), otherwise the polygon is filled; the trail ends up empty
EndFillThrows(t) == Len(t.points) = 0

TurtleEndFill(t) == [t EXCEPT !.points = <<>>]

NoFillHist ==
    [ open |-> FALSE, expected |-> <<>>, polygon |-> <<>>, wanted |-> <<>>,
      fills |-> 0, threw |-> FALSE, rotations |-> 0, ops |-> 0 ]

TrailIdle == fillHist = NoFillHist

(***************************************************************************)
(* On-page console                                                         *)
(***************************************************************************)
MaxMessages == 4    \* console messages and clearConsole calls in one run

\* "error" from window.onerror, "log" from console.log
Kinds == {"error", "log"}

\* the texts of the messages, the empty text among them
Texts == {"", "a", "b"}

\* The panel at start-up.  A line is its class, its text and the number in
\* its repetition span (0: the span is empty); repetitionElt is the line
\* that holds _repetitionElt, 0 when the element is not in the panel.
NewConsole ==
    [ lines |-> <<>>, repetition |-> 1, repetitionElt |-> 0, lastValue |-> <<"", "">> ]

\* A plausible slip: clearConsole leaves _lastValue as it is.
ClearConsoleKeepLast(c) == [c EXCEPT !.lines = <<>>, !.repetitionElt = 0]

\* clearConsole()
ClearConsole(c) ==
    [c EXCEPT !.lines = <<>>, !.repetitionElt = 0, !.lastValue = <<"", "">>]

\* _writeConsole(kind, text)
WriteConsole(c, kind, text) ==
    IF kind = c.lastValue[1] /\ text = c.lastValue[2]
    THEN [c EXCEPT !.repetition = @ + 1,
                   !.lines = IF c.repetitionElt \in 1..Len(c.lines)
                             THEN [@ EXCEPT ![c.repetitionElt].marker = c.repetition + 1]
                             ELSE @]
    ELSE [ lines |-> Append(c.lines, [ kind |-> kind, text |-> text, marker |-> 0 ]),
           repetition |-> 1,
           repetitionElt |-> Len(c.lines) + 1,
           lastValue |-> <<kind, text>> ]

ConsoleIdle ==
    /\ console = NewConsole
    /\ conLog = <<>>

(***************************************************************************)
(* Sprite specification                                                    *)
(***************************************************************************)
InitSprite ==
    /\ ConsoleIdle
    /\ TrailIdle
    /\ BeepIdle
    /\ ServerIdle
    /\ RandomIdle
    /\ KeyboardIdle
    /\ TurtleIdle
    /\ FramesIdle
    /\ InputIdle
    /\ CellsIdle
    /\ \E n \in 1..MaxFrames, fps \in FpsValues, lp \in BOOLEAN :
          sprite = NewSprite(n, fps, lp)
    /\ deltaTime = 0
    /\ spriteHist = NoSpriteHist
    /\ HitboxIdle
    /\ GridIdle
    /\ PointerIdle
    /\ IOIdle

\* One animation frame: _updateHandler sets deltaTime, the program's update
\* callback calls sprite.update().
Update ==
    \E dt \in 0..MaxDelta :
        /\ sprite.remainingTime - dt >= -MaxDebt
        /\ deltaTime' = dt
        /\ sprite' = SpriteUpdate(sprite, dt)
        /\ spriteHist' =
             [ visited |-> spriteHist.visited \cup {sprite'.index},
               prevIndex |-> sprite.index,
               changes |-> spriteHist.changes
                             + (IF sprite'.finished # sprite.finished THEN 1 ELSE 0),
               everDue |-> spriteHist.everDue
                             \/ (sprite.index = Len(sprite.frames) - 1
                                  /\ sprite.remainingTime - dt < 0),
               wrapped |-> spriteHist.wrapped
                             \/ (sprite.index = Len(sprite.frames) - 1
                                  /\ sprite'.index = 0 /\ Len(sprite.frames) > 1),
               longDelta |-> spriteHist.longDelta \/ dt > 2 * FramePeriod(sprite),
               afterFinish |-> spriteHist.afterFinish \/ sprite.finished ]
        /\ UNCHANGED outsideSprite

NextSprite == Update

SpecSprite == InitSprite /\ [][NextSprite]_vars

\* C1: a non-looping sprite's `finished` is false until every frame index has
\* been current and an update found the budget of the last frame (index n-1)
\* run out; it turns true at that update, its value changes exactly once, it
\* stays true and the index stays at n-1.
SpriteFinishedOnce ==
    ~sprite.loop =>
        /\ sprite.finished <=> spriteHist.everDue
        /\ spriteHist.changes = (IF sprite.finished THEN 1 ELSE 0)
        /\ sprite.finished =>
              /\ sprite.index = Len(sprite.frames) - 1
              /\ spriteHist.visited = 0..(Len(sprite.frames) - 1)

\* a non-looping sprite of at least two frames finished, and was updated again
SpriteFinishedWitness ==
    /\ ~sprite.loop
    /\ Len(sprite.frames) >= 2
    /\ sprite.finished
    /\ spriteHist.afterFinish

\* C2: a looping sprite's index stays in 0..n-1, every change of it is a step
\* to the next index or the wrap from n-1 to 0, the indices are first reached
\* in the order 0, 1, ..., n-1, and `finished` stays false.
SpriteLoopsInOrder ==
    sprite.loop =>
        /\ sprite.index \in 0..(Len(sprite.frames) - 1)
        /\ ~sprite.finished
        /\ spriteHist.changes = 0
        /\ \/ sprite.index = spriteHist.prevIndex
           \/ sprite.index = (spriteHist.prevIndex + 1) % Len(sprite.frames)
        /\ \A i \in spriteHist.visited : \A j \in 0..i : j \in spriteHist.visited

\* a looping sprite of at least two frames wrapped from n-1 to 0 after an
\* update whose deltaTime was longer than two frame periods
SpriteLoopWitness ==
    /\ sprite.loop
    /\ Len(sprite.frames) >= 2
    /\ spriteHist.wrapped
    /\ spriteHist.longDelta
    /\ spriteHist.visited = 0..(Len(sprite.frames) - 1)

(***************************************************************************)
(* Hitbox specification                                                    *)
(***************************************************************************)
InitHitbox ==
    /\ ConsoleIdle
    /\ TrailIdle
    /\ BeepIdle
    /\ ServerIdle
    /\ RandomIdle
    /\ KeyboardIdle
    /\ TurtleIdle
    /\ FramesIdle
    /\ InputIdle
    /\ CellsIdle
    /\ hitboxes \in [ a : Hitboxes, b : Hitboxes ]
    /\ hitResult = NoHitResult
    /\ SpriteIdle
    /\ GridIdle
    /\ PointerIdle
    /\ IOIdle

\* The program evaluates a.intersects(b) and b.intersects(a).
IntersectBoth ==
    /\ ~hitResult.called
    /\ hitResult' = [ called |-> TRUE,
                      ab |-> Intersects(hitboxes.a, hitboxes.b),
                      ba |-> Intersects(hitboxes.b, hitboxes.a) ]
    /\ UNCHANGED <<hitboxes, outsideHitbox>>

NextHitbox == IntersectBoth

SpecHitbox == InitHitbox /\ [][NextHitbox]_vars

\* the width of the strip shared by the x-extents (y-extents) of a and b
OverlapWidth(a, b) == Min(a.x + a.width, b.x + b.width) - Max(a.x, b.x)
OverlapHeight(a, b) == Min(a.y + a.height, b.y + b.height) - Max(a.y, b.y)

\* an edge of a coincides with the opposite edge of b
EdgesTouch(a, b) ==
    \/ a.x + a.width = b.x
    \/ b.x + b.width = a.x
    \/ a.y + a.height = b.y
    \/ b.y + b.height = a.y

PositiveSize(h) == h.width > 0 /\ h.height > 0

\* C6: Hitbox.intersects is symmetric for all hitboxes, whatever the sign of
\* their sizes: a.intersects(b) = b.intersects(a).
IntersectsSymmetric ==
    hitResult.called => (hitResult.ab <=> hitResult.ba)

\* two hitboxes of different position and size that intersect both ways
IntersectsSymmetricWitness ==
    /\ hitResult.called
    /\ hitboxes.a.x # hitboxes.b.x
    /\ hitboxes.a.width # hitboxes.b.width
    /\ hitResult.ab
    /\ hitResult.ba

\* C7: for hitboxes of positive width and height, exactly touching edges do
\* not intersect, and intersects is true exactly when the rectangles share
\* an area of positive size.
IntersectsExcludesTouching ==
    (hitResult.called /\ PositiveSize(hitboxes.a) /\ PositiveSize(hitboxes.b)) =>
        /\ EdgesTouch(hitboxes.a, hitboxes.b) => ~hitResult.ab
        /\ hitResult.ab <=> (OverlapWidth(hitboxes.a, hitboxes.b) > 0
                               /\ OverlapHeight(hitboxes.a, hitboxes.b) > 0)

\* a's right edge lies on b's left edge, their y-extents overlap, and
\* a.intersects(b) returned false
IntersectsTouchingWitness ==
    /\ hitResult.called
    /\ PositiveSize(hitboxes.a) /\ PositiveSize(hitboxes.b)
    /\ hitboxes.a.x + hitboxes.a.width = hitboxes.b.x
    /\ OverlapHeight(hitboxes.a, hitboxes.b) > 0
    /\ ~hitResult.ab

(***************************************************************************)
(* Grid hit-testing specification                                          *)
(***************************************************************************)
InitGrid ==
    /\ ConsoleIdle
    /\ TrailIdle
    /\ BeepIdle
    /\ ServerIdle
    /\ RandomIdle
    /\ KeyboardIdle
    /\ TurtleIdle
    /\ FramesIdle
    /\ InputIdle
    /\ CellsIdle
    /\ grid \in Grids
    /\ hit = NoHit
    /\ SpriteIdle
    /\ HitboxIdle
    /\ PointerIdle
    /\ IOIdle

\* The program calls grid.cellFromPoint(px, py).
CellFromPointCall ==
    \E px \in PointXs, py \in PointYs :
        /\ ~hit.called
        /\ hit' = [ called |-> TRUE, x |-> px, y |-> py,
                    cell |-> CellFromPoint(grid, px, py) ]
        /\ UNCHANGED <<grid, pointerVars, outsideGrid>>

NextGrid == CellFromPointCall

SpecGrid == InitGrid /\ [][NextGrid]_vars

\* (px, py) lies inside cell c's pixel rectangle:
\* c.x <= px < c.x + c.width and c.y <= py < c.y + c.height
InsideCell(g, c, px, py) ==
    /\ c.x <= px * g.columns
    /\ px * g.columns < c.x + c.width
    /\ c.y <= py * g.rows
    /\ py * g.rows < c.y + c.height

\* (px, py) lies outside the grid's bounds
OutsideGrid(g, px, py) ==
    \/ px < g.x
    \/ px >= g.x + g.width
    \/ py < g.y
    \/ py >= g.y + g.height

AllCells(g) == { Cells(g)[i][j] : i \in 0..(g.rows - 1), j \in 0..(g.columns - 1) }

\* C3: cellFromPoint(x, y) returns cell c for every point inside c's pixel
\* rectangle, for every cell of every grid, last row and column included.
CellFromPointInsideCell ==
    hit.called =>
        \A c \in AllCells(grid) :
            InsideCell(grid, c, hit.x, hit.y) => hit.cell = c

\* a point inside the cell of the last row and last column of a grid of
\* several rows and columns, whose cell width is not a whole number
CellFromPointInsideWitness ==
    /\ hit.called
    /\ grid.rows >= 2 /\ grid.columns >= 2
    /\ CellWidthN(grid) % grid.columns # 0
    /\ InsideCell(grid, Cells(grid)[grid.rows - 1][grid.columns - 1], hit.x, hit.y)
    /\ hit.cell = Cells(grid)[grid.rows - 1][grid.columns - 1]

\* C4: cellFromPoint(x, y) returns undefined for every point outside the
\* grid's bounds (left of, right of, above or below it).
CellFromPointOutsideGrid ==
    (hit.called /\ OutsideGrid(grid, hit.x, hit.y)) => hit.cell = Undefined

\* the first pixel right of the grid, at a y inside it, gave undefined
CellFromPointOutsideWitness ==
    /\ hit.called
    /\ hit.x = grid.x + grid.width
    /\ hit.y > grid.y /\ hit.y < grid.y + grid.height - 1
    /\ grid.width > grid.columns + 1
    /\ hit.cell = Undefined

\* C5: cellFromPoint returns the cell containing the point: a returned cell's
\* own rectangle contains the point, and a point in no cell's rectangle
\* (such as a point on a grid line) gives undefined.
CellFromPointContains ==
    hit.called =>
        /\ hit.cell # Undefined => InsideCell(grid, hit.cell, hit.x, hit.y)
        /\ (\A c \in AllCells(grid) : ~InsideCell(grid, c, hit.x, hit.y))
              => hit.cell = Undefined

(***************************************************************************)
(* Grid activation specification                                           *)
(***************************************************************************)
\* the grid on the canvas: two rows of two cells over the pixels 0..MaxPtr+1
ActGrids ==
    { NewGrid(2, 2, 0, 0, MaxPtr + 2, MaxPtr + 2) }

InitActivate ==
    /\ ConsoleIdle
    /\ TrailIdle
    /\ BeepIdle
    /\ ServerIdle
    /\ RandomIdle
    /\ KeyboardIdle
    /\ TurtleIdle
    /\ FramesIdle
    /\ InputIdle
    /\ CellsIdle
    /\ grid \in ActGrids
    /\ hit = NoHit
    /\ PointerIdle
    /\ SpriteIdle
    /\ HitboxIdle
    /\ IOIdle

\* "mousedown" listener
MouseDown ==
    \E b \in Buttons :
        /\ mouse' = IF mouse.buttons[b] # "false"
                    THEN [mouse EXCEPT !.buttons[b] = "true"]
                    ELSE mouse
        /\ actHist' = AfterEvent(actHist, mouse', touch)
        /\ UNCHANGED <<touch, gridVars, outsideGrid>>

\* "mouseup" listener
MouseUp ==
    \E b \in Buttons :
        /\ mouse' = [mouse EXCEPT !.buttons[b] = "null"]
        /\ actHist' = AfterEvent(actHist, mouse', touch)
        /\ UNCHANGED <<touch, gridVars, outsideGrid>>

\* "mousemove" listener
MouseMove ==
    \E px \in PtrCoords, py \in PtrCoords :
        /\ mouse' = [mouse EXCEPT !.x = px, !.y = py, !.over = "true"]
        /\ actHist' = AfterEvent(actHist, mouse', touch)
        /\ UNCHANGED <<touch, gridVars, outsideGrid>>

\* "mouseout" listener
MouseOut ==
    /\ mouse' = [mouse EXCEPT !.over = "false", !.buttons = [ b \in Buttons |-> "null" ]]
    /\ actHist' = AfterEvent(actHist, mouse', touch)
    /\ UNCHANGED <<touch, gridVars, outsideGrid>>

\* set mouse.left / set mouse.right: the program assigns false
SetButtonFalse ==
    \E b \in Buttons :
        /\ mouse' = [mouse EXCEPT !.buttons[b] = "false"]
        /\ actHist' = AfterEvent(actHist, mouse', touch)
        /\ UNCHANGED <<touch, gridVars, outsideGrid>>

\* _touchHandler, the listener of "touchstart", "touchend" and "touchmove"
TouchHandler ==
    \E ts \in TouchLists :
        /\ touch' = [ touches |-> ts,
                      touchable |-> IF Len(ts) = 0 THEN TRUE ELSE touch.touchable ]
        /\ actHist' = AfterEvent(actHist, mouse, touch')
        /\ UNCHANGED <<mouse, gridVars, outsideGrid>>

\* set touchscreen.touched: the program assigns false
SetTouchedFalse ==
    /\ touch' = [touch EXCEPT !.touchable = FALSE]
    /\ actHist' = AfterEvent(actHist, mouse, touch')
    /\ UNCHANGED <<mouse, gridVars, outsideGrid>>

\* The program reads grid.activated.
ReadActivated ==
    LET r == Activated(grid, mouse, touch)
        pressed == Pressed(mouse, touch)
    IN  /\ grid' = r.grid
        /\ actHist' =
             [ lastOp |-> "read",
               result |-> r.result,
               prevActive |-> grid.activeCell,
               everTrue |-> actHist.everTrue \/ r.result,
               idle |-> IF r.result THEN FALSE ELSE actHist.idle \/ ~pressed,
               held |-> IF r.result THEN TRUE ELSE actHist.held /\ pressed,
               everTrueBefore |-> actHist.everTrue,
               idleBefore |-> actHist.idle,
               heldBefore |-> actHist.held ]
        /\ UNCHANGED <<hit, mouse, touch, outsideGrid>>

NextActivate ==
    \/ MouseDown
    \/ MouseUp
    \/ MouseMove
    \/ MouseOut
    \/ SetButtonFalse
    \/ TouchHandler
    \/ SetTouchedFalse
    \/ ReadActivated

SpecActivate == InitActivate /\ [][NextActivate]_vars

\* C9: `activated` is an edge trigger: a read returns true only if the pointer
\* has not stayed pressed since the last read that returned true, and between
\* two reads that return true there is a read that saw no button pressed and
\* the screen not touched.
ActivatedEdgeTrigger ==
    (actHist.lastOp = "read" /\ actHist.result) =>
        /\ ~actHist.heldBefore
        /\ actHist.everTrueBefore => actHist.idleBefore

\* a second activation: a read returned true after an earlier one did and a
\* read in between saw nothing pressed
ActivatedEdgeWitness ==
    /\ actHist.lastOp = "read"
    /\ actHist.result
    /\ actHist.everTrueBefore
    /\ actHist.idleBefore

\* C10: a read of `activated` that returns true leaves activeCell equal to
\* cellFromPoint of the pointer position (the touch if the screen is touched,
\* else the mouse); a read that returns false leaves activeCell unchanged;
\* activeCell is always a cell of the grid, cell (0,0) before any activation.
ActiveCellIsSelected ==
    /\ grid.activeCell \in AllCells(grid)
    /\ ~actHist.everTrue => grid.activeCell = Cells(grid)[0][0]
    /\ (actHist.lastOp = "read" /\ actHist.result) =>
          grid.activeCell =
              CellFromPoint(grid, PointerX(mouse, touch), PointerY(mouse, touch))
    /\ (actHist.lastOp = "read" /\ ~actHist.result) =>
          grid.activeCell = actHist.prevActive

\* a touch selected a cell other than (0,0) and other than the one under the mouse
ActiveCellWitness ==
    /\ actHist.lastOp = "read"
    /\ actHist.result
    /\ Touched(touch)
    /\ grid.activeCell # Cells(grid)[0][0]
    /\ grid.activeCell # CellFromPoint(grid, mouse.x, mouse.y)
    /\ grid.activeCell # actHist.prevActive

(***************************************************************************)
(* Output comparison specification                                         *)
(***************************************************************************)
\* The page has run: the program wrote some text (or none, or read() reset
\* _outputElt), and the `o` parameter is present.
InitCompare ==
    /\ ConsoleIdle
    /\ TrailIdle
    /\ BeepIdle
    /\ ServerIdle
    /\ RandomIdle
    /\ KeyboardIdle
    /\ TurtleIdle
    /\ FramesIdle
    /\ InputIdle
    /\ CellsIdle
    /\ outputElt \in { NoOutputElt }
                       \cup { [ set |-> TRUE, textContent |-> t ] : t \in Strings(MaxText) }
    /\ oValue \in Strings(MaxExpected)
    /\ cmp = NoCmp
    /\ SpriteIdle
    /\ HitboxIdle
    /\ GridIdle
    /\ PointerIdle

\* "load" listener up to the scan: output is computed; if it equals oValue it
\* is marked correct as a whole, else the scan starts at offset 0.
LoadCompare ==
    /\ cmp.pc = "idle"
    /\ LET output == OutputOf(outputElt)
       IN  cmp' = IF output = oValue
                  THEN [ pc |-> "done", output |-> output, offset |-> 0,
                         correct |-> output, hasIncorrect |-> FALSE, incorrect |-> <<>> ]
                  ELSE [ cmp EXCEPT !.pc = "scan", !.output = output, !.offset = 0 ]
    /\ UNCHANGED <<outputElt, oValue, outsideIO>>

\* one turn of `while (output[offset] == oValue[offset]) offset++`
ScanStep ==
    /\ cmp.pc = "scan"
    /\ cmp.offset <= MaxText + MaxExpected
    /\ ScanContinues(cmp.output, oValue, cmp.offset)
    /\ cmp' = [ cmp EXCEPT !.offset = cmp.offset + 1 ]
    /\ UNCHANGED <<outputElt, oValue, outsideIO>>

\* the scan ends: the two spans are written
ScanEnd ==
    /\ cmp.pc = "scan"
    /\ ~ScanContinues(cmp.output, oValue, cmp.offset)
    /\ cmp' = [ cmp EXCEPT !.pc = "done",
                           !.correct = SliceTo(cmp.output, cmp.offset),
                           !.hasIncorrect = TRUE,
                           !.incorrect = IncorrectText(cmp.output, oValue, cmp.offset) ]
    /\ UNCHANGED <<outputElt, oValue, outsideIO>>

NextCompare ==
    \/ LoadCompare
    \/ ScanStep
    \/ ScanEnd

SpecCompare == InitCompare /\ [][NextCompare]_vars

\* the length of the longest common prefix of a and b
CommonPrefixLen(a, b) ==
    CHOOSE k \in 0..Min(Len(a), Len(b)) :
        /\ \A i \in 1..k : a[i] = b[i]
        /\ k = Min(Len(a), Len(b)) \/ a[k + 1] # b[k + 1]

\* the characters of s that are not whitespace, in order
Letters(s) == SelectSeq(s, LAMBDA c : c \notin Whitespace)

\* s is t with trailing whitespace removed from each line and from the end:
\* no space stands before a line break or at the end, no line break at the
\* end, and the letters are those of t
IsTrimmed(s, t) ==
    /\ \A i \in 1..Len(s) : s[i] = " " => (i < Len(s) /\ s[i + 1] # "\n")
    /\ Len(s) > 0 => s[Len(s)] \notin Whitespace
    /\ Letters(s) = Letters(t)

\* C8: with the `o` parameter present, the correct span is exactly the
\* longest common prefix of the trimmed actual output and the expected
\* output, the incorrect span is the rest of the actual output (followed only
\* by padding spaces); when the two are equal the whole output is correct and
\* there is no incorrect span.  The scan never runs past the shorter string,
\* so it terminates, also when one string is a prefix of the other or empty.
ComparisonMarksCommonPrefix ==
    LET k == CommonPrefixLen(cmp.output, oValue)
        rest == SliceFrom(cmp.output, k)
    IN  /\ cmp.pc # "idle" => IsTrimmed(cmp.output, outputElt.textContent)
        /\ cmp.pc = "scan" =>
              /\ cmp.offset <= k
              /\ cmp.offset = k => ~ScanContinues(cmp.output, oValue, cmp.offset)
        /\ (cmp.pc = "done" /\ cmp.output = oValue) =>
              /\ cmp.correct = cmp.output
              /\ ~cmp.hasIncorrect
        /\ (cmp.pc = "done" /\ cmp.output # oValue) =>
              /\ cmp.correct = SliceTo(cmp.output, k)
              /\ cmp.hasIncorrect
              /\ Len(cmp.incorrect) >= Len(rest)
              /\ SliceTo(cmp.incorrect, Len(rest)) = rest
              /\ \A i \in (Len(rest) + 1)..Len(cmp.incorrect) : cmp.incorrect[i] = " "

\* the written text needed trimming inside and at its end, its trimmed form
\* is a proper, non-empty prefix of the expected output, and the scan ended
ComparisonWitness ==
    /\ cmp.pc = "done"
    /\ outputElt.set
    /\ TrimEnd(outputElt.textContent) # outputElt.textContent
    /\ Len(cmp.output) > 0
    /\ Len(cmp.output) < Len(oValue)
    /\ cmp.correct = cmp.output
    /\ cmp.hasIncorrect

(***************************************************************************)
(* Cell property specification                                             *)
(***************************************************************************)
\* grids of two cells, side by side or one above the other
CellGrids == { NewGrid(1, 2, 0, 0, 5, 3), NewGrid(2, 1, 0, 0, 3, 5) }

InitCells ==
    /\ ConsoleIdle
    /\ TrailIdle
    /\ BeepIdle
    /\ ServerIdle
    /\ RandomIdle
    /\ KeyboardIdle
    /\ TurtleIdle
    /\ FramesIdle
    /\ InputIdle
    /\ grid \in CellGrids
    /\ hit = NoHit
    /\ cellProps = NewCellProps(grid)
    /\ cellHist = NoCellHist
    /\ SpriteIdle
    /\ HitboxIdle
    /\ PointerIdle
    /\ IOIdle

\* the assignment of `value` to property `op` of cell id has run
AfterSetter(op, id, value) ==
    /\ cellHist' = [ op |-> op, cell |-> id, value |-> value, prev |-> cellProps,
                     canvas |-> SetterRedraw(grid, cellProps', id) ]
    /\ UNCHANGED <<gridVars, outsideCells>>

\* set color(value)
SetColor ==
    \E id \in CellIds(grid), v \in PropValues :
        /\ cellProps' = [cellProps EXCEPT ![id].color = v]
        /\ AfterSetter("color", id, v)

\* set image(value)
SetImage ==
    \E id \in CellIds(grid), v \in PropValues :
        /\ cellProps' = [cellProps EXCEPT ![id].image = v]
        /\ AfterSetter("image", id, v)

\* set text(value)
SetText ==
    \E id \in CellIds(grid), v \in TextValues :
        /\ cellProps' = [cellProps EXCEPT ![id] = WithText(cellProps[id], v)]
        /\ AfterSetter("text", id, v.text)

\* set custom(value)
SetCustom ==
    \E id \in CellIds(grid), v \in PropValues :
        /\ cellProps' = [cellProps EXCEPT ![id].custom = v]
        /\ AfterSetter("custom", id, v)

NextCells ==
    \/ SetColor
    \/ SetImage
    \/ SetText
    \/ SetCustom

SpecCells == InitCells /\ [][NextCells]_vars

\* the clear() operations among ops
Clears(ops) == SelectSeq(ops, LAMBDA o : o.op = "clear")

\* the value of property op in a cell's fields
PropOf(props, op) ==
    CASE op = "color" -> props.color
      [] op = "image" -> props.image
      [] op = "text" -> props.text
      [] op = "custom" -> props.custom

\* C11: assigning color, image, text or custom of a cell stores the value and
\* draws that cell once: exactly one clear, of exactly that cell's rectangle,
\* comes first, nothing is drawn for another cell, and the other cells and
\* the cell's other three properties keep their values.
CellSetterRedrawsCell ==
    cellHist.op # "none" =>
        LET id == cellHist.cell
            c == NewCell(grid, id[1], id[2])
        IN  /\ PropOf(cellProps[id], cellHist.op) = cellHist.value
            /\ Len(Clears(cellHist.canvas)) = 1
            /\ cellHist.canvas[1] =
                 [ op |-> "clear", cell |-> id,
                   x |-> c.x, y |-> c.y, width |-> c.width, height |-> c.height ]
            /\ \A k \in 1..Len(cellHist.canvas) : cellHist.canvas[k].cell = id
            /\ \A o \in CellIds(grid) \ {id} : cellProps[o] = cellHist.prev[o]
            /\ \A p \in {"color", "image", "text", "custom"} \ {cellHist.op} :
                  PropOf(cellProps[id], p) = PropOf(cellHist.prev[id], p)

\* the text of the second cell was assigned while the first cell has a color
\* and the second an image: the second cell alone was cleared and redrawn
CellSetterWitness ==
    /\ cellHist.op = "text"
    /\ cellHist.cell # <<0, 0>>
    /\ cellHist.value = "t"
    /\ cellProps[<<0, 0>>].color = "v"
    /\ cellProps[cellHist.cell].image = "v"
    /\ Len(cellHist.canvas) = 3

(***************************************************************************)
(* Text input and output specification                                     *)
(***************************************************************************)
InitIO ==
    /\ ConsoleIdle
    /\ TrailIdle
    /\ BeepIdle
    /\ ServerIdle
    /\ RandomIdle
    /\ KeyboardIdle
    /\ TurtleIdle
    /\ FramesIdle
    /\ \E param \in Params :
          /\ input = NewInput(param)
          /\ ioHist = [NoIOHist EXCEPT !.supplied = Len(InputLinesOf(param))]
    /\ panel = CanvasShown
    /\ pending = {}
    /\ IOIdle
    /\ SpriteIdle
    /\ HitboxIdle
    /\ GridIdle
    /\ PointerIdle
    /\ CellsIdle

\* a read() has returned `value`; `waited` tells whether it waited for Enter
Returned(value, waited) ==
    Append(ioHist.returned, [ value |-> value, waited |-> waited ])

\* read(prompt): a supplied line resolves the promise at once, otherwise the
\* promise waits for Enter in this call's element
Read ==
    /\ ioHist.reads < MaxReads
    /\ outputElt' = NoOutputElt
    /\ IF HasLine(input)
       THEN LET r == Resolve(input)
            IN  /\ panel' = CanvasShown
                /\ input' = r.input
                /\ pending' = pending
                /\ ioHist' = [ioHist EXCEPT !.last = "read", !.reads = @ + 1,
                                            !.returned = Returned(r.value, FALSE)]
       ELSE /\ panel' = PanelShown
            /\ input' = input
            /\ pending' = pending \cup {ioHist.reads + 1}
            /\ ioHist' = [ioHist EXCEPT !.last = "read", !.reads = @ + 1]
    /\ UNCHANGED <<oValue, cmp, outsideInput>>

\* valueElt.onkeydown with event.code == "Enter" in the element of a pending
\* read(); the element is not editable afterwards
Enter ==
    \E id \in pending, text \in UserTexts :
        LET r == Resolve(StoreLine(input, text))
        IN  /\ panel' = CanvasShown
            /\ input' = r.input
            /\ pending' = pending \ {id}
            /\ ioHist' = [ioHist EXCEPT !.last = "enter",
                                        !.returned = Returned(r.value, TRUE)]
            /\ UNCHANGED <<ioVars, outsideInput>>

\* write(value, end)
Write ==
    \E value \in WriteValues, end \in WriteEnds :
        /\ Len(outputElt.textContent) + Len(value \o end) <= MaxText
        /\ IF ~outputElt.set
           THEN /\ outputElt' = [ set |-> TRUE, textContent |-> value \o end ]
                /\ panel' = PanelShown
           ELSE /\ outputElt' = [outputElt EXCEPT !.textContent = @ \o value \o end]
                /\ panel' = panel
        /\ ioHist' = [ioHist EXCEPT !.last = "write"]
        /\ UNCHANGED <<input, pending, oValue, cmp, outsideInput>>

\* clearIO()
ClearIO ==
    /\ ioHist.last # "clearIO"
    /\ panel' = PanelShown
    /\ outputElt' = NoOutputElt
    /\ ioHist' = [ioHist EXCEPT !.last = "clearIO"]
    /\ UNCHANGED <<input, pending, oValue, cmp, outsideInput>>

NextIO ==
    \/ Read
    \/ Enter
    \/ Write
    \/ ClearIO

SpecIO == InitIO /\ [][NextIO]_vars

\* C12: after every call of write(), however it is interleaved with read()
\* calls (pending or completed) and clearIO(), the canvas is hidden and the
\* I/O panel is visible.
WriteHidesCanvas ==
    ioHist.last = "write" => panel.canvasHidden /\ ~panel.ioHidden

\* C13: the k-th read() to complete returns entry k of the input-line list;
\* the lines supplied through `i` are returned without waiting, every
\* completed read advances the line index by one, and a read waits for Enter
\* only when the supplied lines are exhausted, also with several reads
\* pending at once.
ReadsInOrder ==
    /\ input.index = Len(ioHist.returned)
    /\ input.index <= Len(input.lines)
    /\ \A k \in 1..Len(ioHist.returned) :
          /\ ioHist.returned[k].value = input.lines[k]
          /\ ioHist.returned[k].waited <=> k > ioHist.supplied
    /\ pending # {} => input.index >= ioHist.supplied
    /\ Len(ioHist.returned) + Cardinality(pending) = ioHist.reads

\* the supplied line was returned at once, then two reads were pending
\* together and the one called later was the first to complete
ReadsInOrderWitness ==
    /\ ioHist.supplied = 1
    /\ Len(ioHist.returned) = 2
    /\ ~ioHist.returned[1].waited
    /\ ioHist.returned[2].waited
    /\ ioHist.returned[1].value # ioHist.returned[2].value
    /\ pending = {2}
    /\ ioHist.reads = 3

(***************************************************************************)
(* Update loop specification                                               *)
(***************************************************************************)
InitFrames ==
    /\ ConsoleIdle
    /\ TrailIdle
    /\ BeepIdle
    /\ ServerIdle
    /\ RandomIdle
    /\ KeyboardIdle
    /\ TurtleIdle
    /\ update = "null"
    /\ handler = NewHandler
    /\ frameHist = NoFrameHist
    /\ SpriteIdle
    /\ HitboxIdle
    /\ GridIdle
    /\ PointerIdle
    /\ IOIdle
    /\ CellsIdle
    /\ InputIdle

\* the program (its top level, an event handler or a timer) assigns `update`
AssignUpdate ==
    \E v \in UpdateValues \ {update} :
        /\ update' = v
        /\ UNCHANGED <<handler, frameHist, spriteVars, consoleVars, outsideFrames>>

\* an animation frame for which _updateHandler is scheduled; in the first
\* frame _timestamp0 has just been set to the frame's timestamp.  An error
\* thrown by update leaves the handler and is reported to window.onerror,
\* which writes it to the console.
Frame ==
    \E dt \in 1..MaxDelta :
        LET r == UpdateHandler(update)
        IN  /\ handler.scheduled
            /\ handler.frames < MaxFrames
            /\ deltaTime' = IF handler.frames = 0 THEN 0 ELSE dt
            /\ update' = r.update
            /\ handler' = [ scheduled |-> r.scheduled, frames |-> handler.frames + 1 ]
            /\ frameHist' = [ frame |-> handler.frames + 1, atFrame |-> update,
                              calls |-> r.calls, threw |-> r.threw,
                              thrown |-> frameHist.thrown + (IF r.threw THEN 1 ELSE 0),
                              callsSince |-> frameHist.callsSince
                                  + (IF frameHist.thrown > 0 THEN r.calls ELSE 0) ]
            /\ IF r.threw
               THEN /\ console' = WriteConsole(console, "error", UpdateError)
                    /\ conLog' = Append(conLog, [ type |-> "message", kind |-> "error",
                                                  text |-> UpdateError ])
               ELSE UNCHANGED consoleVars
            /\ UNCHANGED <<sprite, spriteHist, outsideFrames>>

\* an animation frame of the page for which nothing is scheduled
IdleFrame ==
    /\ ~handler.scheduled
    /\ handler.frames < MaxFrames
    /\ handler' = [handler EXCEPT !.frames = @ + 1]
    /\ frameHist' = [frameHist EXCEPT !.frame = handler.frames + 1, !.atFrame = update,
                                      !.calls = 0, !.threw = FALSE]
    /\ UNCHANGED <<update, spriteVars, consoleVars, outsideFrames>>

NextFrames ==
    \/ AssignUpdate
    \/ Frame
    \/ IdleFrame

SpecFrames == InitFrames /\ [][NextFrames]_vars

\* C14: in every animation frame `update` is invoked exactly once if it is a
\* function at that frame (and not at all if it is null), whatever was
\* assigned to it before the frame, and the frame handler is scheduled again
\* after the frame.
UpdateOncePerFrame ==
    frameHist.frame > 0 =>
        /\ frameHist.calls = (IF frameHist.atFrame = "null" THEN 0 ELSE 1)
        /\ handler.scheduled

InitTurtle ==
    /\ ConsoleIdle
    /\ TrailIdle
    /\ BeepIdle
    /\ ServerIdle
    /\ RandomIdle
    /\ KeyboardIdle
    /\ \E delay \in 0..MaxDelay : turtle = NewTurtle(delay)
    /\ clock = 0
    /\ moves = <<>>
    /\ SpriteIdle
    /\ HitboxIdle
    /\ GridIdle
    /\ PointerIdle
    /\ IOIdle
    /\ CellsIdle
    /\ InputIdle
    /\ FramesIdle

\* `await t.forward(1)`, `await t.backward(1)`, `await t.right()` or
\* `await t.left()`: the program goes on to it when the promise it awaited
\* before is resolved
Move ==
    \E method \in Methods :
        /\ Len(moves) < MaxMoves
        /\ \A i \in 1..Len(moves) : moves[i].resolved
        /\ turtle' = TurtleAfter(turtle, method)
        /\ moves' = Append(moves, NewMove(method, clock, turtle.delay))
        /\ UNCHANGED <<clock, outsideTurtle>>

\* the timer of a sleep fires, not before its duration has passed, and the
\* promises waiting for it resolve
TimerFires ==
    \E i \in 1..Len(moves) :
        /\ ~moves[i].fired
        /\ clock >= moves[i].due
        /\ moves' = [moves EXCEPT ![i].fired = TRUE, ![i].resolved = TRUE]
        /\ UNCHANGED <<turtle, clock, outsideTurtle>>

\* a millisecond passes
Tick ==
    /\ clock < MaxClock
    /\ clock' = clock + 1
    /\ UNCHANGED <<turtle, moves, outsideTurtle>>

NextTurtle ==
    \/ Move
    \/ TimerFires
    \/ Tick

SpecTurtle == InitTurtle /\ [][NextTurtle]_vars

\* C15: the promise of forward, backward, right and left resolves only after
\* the sleep timer started by that change of state has fired, so every two
\* awaited changes of state are at least `delay` ms apart.
TurtleDelaySeparates ==
    /\ \A i \in 1..Len(moves) : moves[i].resolved => moves[i].fired
    /\ \A i \in 1..Len(moves) : \A j \in (i + 1)..Len(moves) :
          moves[j].changedAt - moves[i].changedAt >= turtle.delay

(***************************************************************************)
(* Keyboard specification                                                  *)
(***************************************************************************)
InitKeyboard ==
    /\ ConsoleIdle
    /\ TrailIdle
    /\ BeepIdle
    /\ ServerIdle
    /\ RandomIdle
    /\ keys = NoKeys
    /\ keyName = "undefined"
    /\ keyLog = <<>>
    /\ SpriteIdle
    /\ HitboxIdle
    /\ GridIdle
    /\ PointerIdle
    /\ IOIdle
    /\ CellsIdle
    /\ InputIdle
    /\ FramesIdle
    /\ TurtleIdle

Logged(type, code) == Append(keyLog, [ type |-> type, code |-> code ])

\* keydown on the canvas: a key goes down, or a held key repeats
KeyDown ==
    \E code \in KeyCodes :
        /\ Len(keyLog) < MaxEvents
        /\ keys' = KeyDownHandler(keys, code)
        /\ keyName' = IF keys[code] # "false" THEN code ELSE keyName
        /\ keyLog' = Logged("keydown", code)
        /\ UNCHANGED outsideKeyboard

\* keyup on the canvas
KeyUp ==
    \E code \in KeyCodes :
        /\ Len(keyLog) < MaxEvents
        /\ keys' = KeyUpHandler(keys, code)
        /\ keyLog' = Logged("keyup", code)
        /\ UNCHANGED <<keyName, outsideKeyboard>>

\* blur of the window
Blur ==
    /\ Len(keyLog) < MaxEvents
    /\ keys' = NoKeys
    /\ keyLog' = Logged("blur", "none")
    /\ UNCHANGED <<keyName, outsideKeyboard>>

\* keyboard.space = false, keyboard.enter = false
SetKeyFalse ==
    \E code \in SettableCodes :
        /\ Len(keyLog) < MaxEvents
        /\ keys' = [keys EXCEPT ![code] = "false"]
        /\ keyLog' = Logged("false", code)
        /\ UNCHANGED <<keyName, outsideKeyboard>>

NextKeyboard ==
    \/ KeyDown
    \/ KeyUp
    \/ Blur
    \/ SetKeyFalse

SpecKeyboard == InitKeyboard /\ [][NextKeyboard]_vars

\* the key is physically down: a keydown for it was received with no later
\* keyup for it
PhysicallyDown(code) ==
    \E i \in 1..Len(keyLog) :
        /\ keyLog[i] = [ type |-> "keydown", code |-> code ]
        /\ \A j \in (i + 1)..Len(keyLog) :
              keyLog[j] # [ type |-> "keyup", code |-> code ]

\* entry n of the log releases the key: a keyup for it or for its paired key,
\* or a blur
Releases(n, code) ==
    \/ keyLog[n].type = "blur"
    \/ keyLog[n].type = "keyup" /\ keyLog[n].code \in {code, PairOf(code)}

\* before entry i, false was assigned to the key and nothing released it since
SuppressedAt(i, code) ==
    \E m \in 1..(i - 1) :
        /\ keyLog[m] = [ type |-> "false", code |-> code ]
        /\ \A n \in (m + 1)..(i - 1) : ~Releases(n, code)

\* a keydown for the key was received while it was not suppressed, and since
\* then nothing released it and false was not assigned to it
CountsAsDown(code) ==
    \E i \in 1..Len(keyLog) :
        /\ keyLog[i] = [ type |-> "keydown", code |-> code ]
        /\ ~SuppressedAt(i, code)
        /\ \A j \in (i + 1)..Len(keyLog) :
              /\ ~Releases(j, code)
              /\ keyLog[j] # [ type |-> "false", code |-> code ]

InitRandom ==
    /\ ConsoleIdle
    /\ TrailIdle
    /\ BeepIdle
    /\ ServerIdle
    /\ \E min \in (0 - MaxRange)..MaxRange, max \in (0 - MaxRange)..MaxRange,
          step \in 1..MaxStep :
          /\ min <= max
          /\ rnd = [ min |-> min, max |-> max, step |-> step, returned |-> {} ]
    /\ SpriteIdle
    /\ HitboxIdle
    /\ GridIdle
    /\ PointerIdle
    /\ IOIdle
    /\ CellsIdle
    /\ InputIdle
    /\ FramesIdle
    /\ TurtleIdle
    /\ KeyboardIdle

\* random(min, max, step)
RandomCall ==
    \E u \in 0..(RandSteps - 1) :
        /\ rnd' = [rnd EXCEPT !.returned = @ \cup {Random(rnd.min, rnd.max, rnd.step, u)}]
        /\ UNCHANGED outsideRandom

NextRandom == RandomCall

SpecRandom == InitRandom /\ [][NextRandom]_vars

\* the largest min + k * step that does not exceed max
LargestInRange(min, max, step) ==
    CHOOSE r \in min..max :
        /\ \E k \in 0..(max - min) : r = min + k * step
        /\ r + step > max

\* every value random(min, max, step) can return
RandomValues(min, max, step) ==
    { Random(min, max, step, u) : u \in 0..(RandSteps - 1) }

\* C17: for integers min <= max and step >= 1, random(min, max, step) lies
\* between min and max (both included) and is min + k * step for an integer
\* k >= 0; min and the largest such value can both be returned.
RandomInRange ==
    /\ \A r \in rnd.returned :
          /\ rnd.min <= r
          /\ r <= rnd.max
          /\ \E k \in 0..(rnd.max - rnd.min) : r = rnd.min + k * rnd.step
    /\ rnd.min \in RandomValues(rnd.min, rnd.max, rnd.step)
    /\ LargestInRange(rnd.min, rnd.max, rnd.step)
         \in RandomValues(rnd.min, rnd.max, rnd.step)

\* with a step that does not divide max - min, min and the largest value
\* below max have both been returned, and a value between them
RandomWitness ==
    /\ rnd.step = 2
    /\ rnd.max - rnd.min = 5
    /\ rnd.returned = {rnd.min, rnd.min + 2, rnd.min + 4}

(***************************************************************************)
(* Development server specification                                        *)
(***************************************************************************)
\* the script has run: the initial buildOnce() and the watcher
InitServer ==
    /\ ConsoleIdle
    /\ TrailIdle
    /\ BeepIdle
    /\ builds = <<NewBuild>>
    /\ server = NewServer
    /\ SpriteIdle
    /\ HitboxIdle
    /\ GridIdle
    /\ PointerIdle
    /\ IOIdle
    /\ CellsIdle
    /\ InputIdle
    /\ FramesIdle
    /\ TurtleIdle
    /\ KeyboardIdle
    /\ RandomIdle

\* chokidar reports a change under the project directory
FileChange ==
    /\ server.changes < MaxChanges
    /\ builds' = ChangeHandler(builds)
    /\ server' = [server EXCEPT !.changes = @ + 1]
    /\ UNCHANGED outsideServer

\* esbuild reads the entry file of the step it is running, at some moment
\* between the call of esbuild.build and its completion
StepReads ==
    \E i \in 1..Len(builds) :
        /\ InProgress(builds[i])
        /\ ~HasRead(builds[i])
        /\ builds' = [builds EXCEPT ![i] = StepRead(@, server.changes)]
        /\ UNCHANGED <<server, outsideServer>>

\* the first esbuild.build (bundle.js) of an invocation settles
Step1Done ==
    \E i \in 1..Len(builds), ok \in BOOLEAN :
        /\ builds[i].pc = "step1"
        /\ ok => HasRead(builds[i])
        /\ builds' = [builds EXCEPT ![i] = StepDone(@, ok)]
        /\ server' = StepOutput(server, builds[i], ok)
        /\ UNCHANGED outsideServer

\* the second esbuild.build (balder.js) of an invocation settles
Step2Done ==
    \E i \in 1..Len(builds), ok \in BOOLEAN :
        /\ builds[i].pc = "step2"
        /\ ok => HasRead(builds[i])
        /\ builds' = [builds EXCEPT ![i] = StepDone(@, ok)]
        /\ server' = StepOutput(server, builds[i], ok)
        /\ UNCHANGED outsideServer

NextServer ==
    \/ FileChange
    \/ StepReads
    \/ Step1Done
    \/ Step2Done

SpecServer == InitServer /\ [][NextServer]_vars

\* C18: in every invocation of buildOnce, browserSync.reload() is called
\* exactly once if both bundler steps succeed, after the second step has
\* completed, and not at all if either step fails.
ReloadIffBuilt ==
    \A i \in 1..Len(builds) :
        LET b == builds[i]
        IN  /\ b.reloads = (IF b.ok1 = "ok" /\ b.ok2 = "ok" THEN 1 ELSE 0)
            /\ InProgress(b) => b.reloads = 0
            /\ b.pc = "failed" <=> "failed" \in {b.ok1, b.ok2}

\* one invocation has reloaded after both steps, another failed in its
\* second step without a reload
ReloadWitness ==
    \E i, j \in 1..Len(builds) :
        /\ builds[i].pc = "done" /\ builds[i].reloads = 1
        /\ builds[j].ok1 = "ok" /\ builds[j].ok2 = "failed" /\ builds[j].reloads = 0

\* C19: buildOnce never rejects, a failed build is logged once and is not
\* started again, and every file-change event starts one buildOnce, also
\* after failed builds.
FailureCaughtNoRetry ==
    /\ Len(builds) = 1 + server.changes
    /\ \A i \in 1..Len(builds) :
          /\ ~builds[i].rejected
          /\ builds[i].errors = (IF builds[i].pc = "failed" THEN 1 ELSE 0)

\* two builds have failed and the change event after them has started a build
FailureWitness ==
    /\ Len(builds) = 3
    /\ builds[1].pc = "failed"
    /\ builds[2].pc = "failed"
    /\ builds[3].pc = "step1"

\* C20: at most one invocation of buildOnce is in progress at any time, also
\* when change events arrive while a build awaits the bundler.
AtMostOneBuild ==
    Cardinality({ i \in 1..Len(builds) : InProgress(builds[i]) }) <= 1

(***************************************************************************)
(* Key suppression                                                         *)
(***************************************************************************)
\* the last assignment of false to the key in the log, 0 if there is none
LastFalse(code) ==
    LET ms == { m \in 1..Len(keyLog) : keyLog[m] = [ type |-> "false", code |-> code ] }
    IN  IF ms = {} THEN 0 ELSE CHOOSE m \in ms : \A n \in ms : n <= m

\* the key was held at entry m: a keydown for it before, no keyup for it since
HeldAt(m, code) ==
    \E i \in 1..(m - 1) :
        /\ keyLog[i] = [ type |-> "keydown", code |-> code ]
        /\ \A j \in (i + 1)..(m - 1) : keyLog[j] # [ type |-> "keyup", code |-> code ]

\* an assignment of false to a key leaves the other keys' entries alone
FalseKeepsOtherKeys ==
    (Len(keyLog') = Len(keyLog) + 1 /\ keyLog'[Len(keyLog')].type = "false") =>
        \A code \in KeyCodes \ {keyLog'[Len(keyLog')].code} : keys'[code] = keys[code]

\* C21 as stated: after false is assigned to the property of a held key, the
\* property reads true again only after a keyup for that key and a keydown
\* following it, whatever keydown events arrive meanwhile; the assignment
\* does not change other keys.
SuppressedUntilKeyUp ==
    /\ [](\A code \in SettableCodes :
            LET m == LastFalse(code)
            IN  (m > 0 /\ HeldAt(m, code) /\ KeyProperty(keys, code)) =>
                    \E u \in (m + 1)..Len(keyLog) :
                        /\ keyLog[u] = [ type |-> "keyup", code |-> code ]
                        /\ \E d \in (u + 1)..Len(keyLog) :
                              keyLog[d] = [ type |-> "keydown", code |-> code ])
    /\ [][FalseKeepsOtherKeys]_vars

\* C21 amended: after false is assigned to the property of a held key, the
\* property reads true exactly when, since the assignment, the key was
\* released (a keyup for it or for its paired key, or a window blur), a
\* keydown for it followed, and nothing released it after that keydown; the
\* assignment does not change other keys.
SuppressedUntilReleased ==
    /\ [](\A code \in SettableCodes :
            LET m == LastFalse(code)
            IN  (m > 0 /\ HeldAt(m, code)) =>
                    (KeyProperty(keys, code) <=>
                        \E d \in (m + 1)..Len(keyLog) :
                            /\ keyLog[d] = [ type |-> "keydown", code |-> code ]
                            /\ \E u \in (m + 1)..(d - 1) : Releases(u, code)
                            /\ \A j \in (d + 1)..Len(keyLog) : ~Releases(j, code)))
    /\ [][FalseKeepsOtherKeys]_vars

\* Enter is held and suppressed, it repeats and still reads false
SuppressedWitness ==
    /\ keyLog = << [ type |-> "keydown", code |-> "Enter" ],
                   [ type |-> "false", code |-> "Enter" ],
                   [ type |-> "keydown", code |-> "Enter" ],
                   [ type |-> "keydown", code |-> "Space" ] >>
    /\ ~KeyProperty(keys, "Enter")
    /\ KeyProperty(keys, "Space")

(***************************************************************************)
(* beep specification                                                      *)
(***************************************************************************)
InitBeep ==
    /\ ConsoleIdle
    /\ TrailIdle
    /\ audioList = <<>>
    /\ beeps = <<>>
    /\ SpriteIdle
    /\ HitboxIdle
    /\ GridIdle
    /\ PointerIdle
    /\ IOIdle
    /\ CellsIdle
    /\ InputIdle
    /\ FramesIdle
    /\ TurtleIdle
    /\ KeyboardIdle
    /\ RandomIdle
    /\ ServerIdle

\* beep(frequency, msDuration, volume)
Beep ==
    \E frequency \in Frequencies, msDuration \in 1..MaxDuration, volume \in Volumes :
        /\ Len(beeps) < MaxBeeps
        /\ audioList' = BeepList(audioList, Len(beeps) + 1, frequency, msDuration, volume)
        /\ beeps' = Append(beeps, BeepCall(audioList, Len(beeps) + 1, frequency))
        /\ UNCHANGED outsideBeep

\* the stop time of an oscillator has come: its tone ends and
\* oscillator.onended runs
ToneEnds ==
    \E k \in 1..Len(audioList) :
        /\ audioList' = Splice(audioList, k)
        /\ beeps' = [ i \in 1..Len(beeps) |->
                        IF beeps[i].osc # audioList[k].id THEN beeps[i]
                        ELSE [beeps[i] EXCEPT
                                !.ended = TRUE,
                                !.resolved = IF beeps[i].onended THEN @ + 1 ELSE @] ]
        /\ UNCHANGED outsideBeep

NextBeep ==
    \/ Beep
    \/ ToneEnds

SpecBeep == InitBeep /\ [][NextBeep]_vars

\* C22: every promise returned by beep() resolves exactly once, when the
\* tone it requested ends: not before, and it is resolved once the tone has
\* ended, also for a call with the frequency of a tone that still plays.
BeepResolvesOnce ==
    \A i \in 1..Len(beeps) :
        /\ beeps[i].resolved <= 1
        /\ beeps[i].ended <=> beeps[i].resolved = 1

(***************************************************************************)
(* Turtle fill outline specification: the calls of one synchronous run of  *)
(* a program, in which no sleep timer fires                                *)
(***************************************************************************)
InitTrail ==
    /\ ConsoleIdle
    /\ turtle = NewTurtle(MaxDelay)
    /\ clock = 0
    /\ moves = <<>>
    /\ fillHist = NoFillHist
    /\ SpriteIdle
    /\ HitboxIdle
    /\ GridIdle
    /\ PointerIdle
    /\ IOIdle
    /\ CellsIdle
    /\ InputIdle
    /\ FramesIdle
    /\ KeyboardIdle
    /\ RandomIdle
    /\ ServerIdle
    /\ BeepIdle

\* the trail the claim expects after a change of position to (x, y)
ExpectedAfterMove(x, y) ==
    IF fillHist.open THEN Append(fillHist.expected, <<x, y>>) ELSE fillHist.expected

\* forward(1, penDown), backward(1, penDown), right(), left(); penDown only
\* chooses between stroking the line and moving the pen
TrailMove ==
    \E method \in Methods, penDown \in BOOLEAN :
        /\ fillHist.ops < MaxTrailOps
        /\ Len(moves) < MaxMoves
        /\ turtle' = TurtleAfter(turtle, method)
        /\ moves' = Append(moves, NewMove(method, clock, turtle.delay))
        /\ fillHist' =
             IF method \in {"forward", "backward"}
             THEN [fillHist EXCEPT !.expected = ExpectedAfterMove(turtle'.x, turtle'.y),
                                   !.ops = @ + 1]
             ELSE [fillHist EXCEPT !.rotations = @ + 1, !.ops = @ + 1]
        /\ UNCHANGED <<clock, outsideTrail>>

\* turtle.state = [x, y, heading]
SetState ==
    \E value \in StateValues :
        /\ fillHist.ops < MaxTrailOps
        /\ turtle' = TurtleSetState(turtle, value)
        /\ fillHist' = [fillHist EXCEPT !.expected = ExpectedAfterMove(value[1], value[2]),
                                        !.ops = @ + 1]
        /\ UNCHANGED <<clock, moves, outsideTrail>>

\* turtle.beginFill()
BeginFill ==
    /\ fillHist.ops < MaxTrailOps
    /\ turtle' = TurtleBeginFill(turtle)
    /\ fillHist' = [fillHist EXCEPT !.open = TRUE,
                                    !.expected = << <<turtle.x, turtle.y>> >>,
                                    !.ops = @ + 1]
    /\ UNCHANGED <<clock, moves, outsideTrail>>

\* turtle.endFill()
EndFill ==
    /\ fillHist.ops < MaxTrailOps
    /\ turtle' = TurtleEndFill(turtle)
    /\ fillHist' = [fillHist EXCEPT
                      !.open = FALSE,
                      !.expected = <<>>,
                      !.polygon = IF EndFillThrows(turtle) THEN @ ELSE turtle.points,
                      !.wanted = IF fillHist.open THEN fillHist.expected ELSE @,
                      !.fills = IF EndFillThrows(turtle) THEN @ ELSE @ + 1,
                      !.threw = EndFillThrows(turtle),
                      !.ops = @ + 1]
    /\ UNCHANGED <<clock, moves, outsideTrail>>

NextTrail ==
    \/ TrailMove
    \/ SetState
    \/ BeginFill
    \/ EndFill

SpecTrail == InitTrail /\ [][NextTrail]_vars

\* C23: the trail is empty whenever no fill is open; while one is open it
\* holds the position at beginFill followed by one point per change of
\* position since (forward, backward, state assignment), in order, rotations
\* adding none; endFill fills the polygon of exactly those points and
\* empties the trail.
TrailBetweenFills ==
    /\ ~fillHist.open => turtle.points = <<>>
    /\ fillHist.open => turtle.points = fillHist.expected
    /\ fillHist.polygon = fillHist.wanted

\* a fill was opened, the turtle moved forward, turned, was placed by a state
\* assignment, and endFill filled the three points and emptied the trail
TrailWitness ==
    /\ ~fillHist.open
    /\ fillHist.fills = 1
    /\ fillHist.rotations = 1
    /\ fillHist.polygon = << <<0, 0>>, <<1, 0>>, <<1, 1>> >>
    /\ turtle.points = <<>>
    /\ fillHist.ops = 5

(***************************************************************************)
(* Console specification                                                   *)
(***************************************************************************)
InitConsole ==
    /\ console = NewConsole
    /\ conLog = <<>>
    /\ SpriteIdle
    /\ HitboxIdle
    /\ GridIdle
    /\ PointerIdle
    /\ IOIdle
    /\ CellsIdle
    /\ InputIdle
    /\ FramesIdle
    /\ TurtleIdle
    /\ KeyboardIdle
    /\ RandomIdle
    /\ ServerIdle
    /\ BeepIdle
    /\ TrailIdle

\* window.onerror or console.log writes a message
ConsoleMessage ==
    \E kind \in Kinds, text \in Texts :
        /\ Len(conLog) < MaxMessages
        /\ console' = WriteConsole(console, kind, text)
        /\ conLog' = Append(conLog, [ type |-> "message", kind |-> kind, text |-> text ])
        /\ UNCHANGED outsideConsole

\* clearConsole(), also run by a click on the panel
ConsoleClear ==
    /\ Len(conLog) < MaxMessages
    /\ console' = ClearConsole(console)
    /\ conLog' = Append(conLog, [ type |-> "clear", kind |-> "", text |-> "" ])
    /\ UNCHANGED outsideConsole

NextConsole ==
    \/ ConsoleMessage
    \/ ConsoleClear

SpecConsole == InitConsole /\ [][NextConsole]_vars

\* the messages since the last clearConsole
RECURSIVE SinceClear(_)
SinceClear(log) ==
    IF Len(log) = 0 \/ log[Len(log)].type = "clear"
    THEN <<>>
    ELSE Append(SinceClear(SubSeq(log, 1, Len(log) - 1)), log[Len(log)])

\* the lines the claim describes for these messages: a message equal in kind
\* and text to the one before it is counted on the last line, any other
\* message begins a line with count 1
RECURSIVE Collapsed(_)
Collapsed(msgs) ==
    IF Len(msgs) = 0 THEN <<>>
    ELSE LET before == SubSeq(msgs, 1, Len(msgs) - 1)
             m == msgs[Len(msgs)]
             sofar == Collapsed(before)
         IN  IF Len(before) > 0 /\ before[Len(before)].kind = m.kind
                                /\ before[Len(before)].text = m.text
             THEN [sofar EXCEPT ![Len(sofar)].count = @ + 1]
             ELSE Append(sofar, [ kind |-> m.kind, text |-> m.text, count |-> 1 ])

\* C25: the panel shows one line per run of consecutive identical messages
\* (same kind and text) since the last clearConsole; a line's repetition
\* marker is empty for one occurrence and shows the number of consecutive
\* occurrences from 2 on; the first message after clearConsole begins a line
\* counted from 1.
ConsoleCollapses ==
    LET want == Collapsed(SinceClear(conLog))
    IN  /\ Len(console.lines) = Len(want)
        /\ \A k \in 1..Len(want) :
              /\ console.lines[k].kind = want[k].kind
              /\ console.lines[k].text = want[k].text
              /\ console.lines[k].marker = (IF want[k].count = 1 THEN 0 ELSE want[k].count)
        /\ Len(want) > 0 => console.repetition = want[Len(want)].count

\* a message was repeated, the panel was cleared, and the same message came
\* twice more: one line, marked 2
ConsoleWitness ==
    /\ Len(conLog) = 4
    /\ conLog[2].type = "clear"
    /\ conLog[1] = conLog[3]
    /\ conLog[3] = conLog[4]
    /\ Len(console.lines) = 1
    /\ console.lines[1].marker = 2

\* C26: whenever every started build has completed successfully, the output
\* files bundle.js and balder.js are the ones produced from the latest state
\* of the sources, and the last reload was sent with those outputs written,
\* also when changes arrive during builds and overlapping builds complete
\* in any order.
OutputsAreLatest ==
    (\A i \in 1..Len(builds) : builds[i].pc = "done") =>
        /\ server.bundle = server.changes
        /\ server.balder = server.changes
        /\ server.reloaded = [ bundle |-> server.changes, balder |-> server.changes ]

====
